---- MODULE Spec2Model ----
(***************************************************************************)
(* Photagg AI (Auto-Tag-Photos-with-AI): metadata embedding, export and    *)
(* the photo collection.                                                   *)
(*                                                                         *)
(* Text is a sequence of UTF-16 code units (what charCodeAt returns), a    *)
(* binary string is a sequence of code units in 0..255.  Sequences are     *)
(* 1-based; JavaScript index i is position i + 1.                          *)
(*                                                                         *)
(* These specifications share the module:                                  *)
(*   SpecXmp     insertXmp, one loop iteration per step                    *)
(*   SpecXmpFair SpecXmp with a call that keeps taking its steps           *)
(*   SpecExport  downloadAllImages / createZipWithMetadata /               *)
(*               processAndDownloadSingleImage, calls running side by side *)
(*   SpecEmbed   embedMetadata called on its own                           *)
(*   SpecUpscale handleUpscalePhoto / handleUpscaleAll with removal and    *)
(*               one export                                                *)
(*   Spec        the photo collection of App.tsx (upload, generation,      *)
(*               retry, removal, upscaling)                                *)
(*   SpecFair    uploads into the empty collection, generation, retry and  *)
(*               removal, where every file read and generation call        *)
(*               settles                                                   *)
(*   SpecHistory one photo uploaded, generated, edited, undone, redone and *)
(*               upscaled                                                  *)
(*   SpecEdit    edit, undo, redo, removal and upscaling on generated      *)
(*               photos                                                    *)
(*   SpecIntake  the intake of files (upload zone, Add Photos input)       *)
(*   SpecCsv     exportToCSV, with upscaling                               *)
(* The naming checkbox acts in every specification of the page.            *)
(*   SpecFileName, SpecPacket, SpecUCS2, SpecEscape, SpecUserComment       *)
(*               constructFileName, createXmpPacket, toUCS2, escapeXml     *)
(*               and toUserComment, each called on its own with sampled    *)
(*               arguments                                                 *)
(***************************************************************************)
EXTENDS Integers, Sequences, FiniteSets, TLC

(* ------------------------------ bounds --------------------------------- *)

\* longest tail, after the start-of-image marker, of an enumerated buffer
MaxTailLen == 5

\* most photos ever uploaded in a run of the collection
MaxUploads == 2

\* longest edit history of a photo
MaxHistory == 3

\* most ids handed out in a run of the intake
MaxIntakeIds == 53

\* most alerts shown in a run of the intake
MaxAlerts == 2

\* most export calls begun in a run
MaxCalls == 2

\* upscale calls (of a card or of Upscale All) made in one behaviour
MaxUpscales == 1

\* most CSV files exported in a run
MaxCsvExports == 1

\* length of the long XMP text given to insertXmp
LongXmpLen == 65505

\* longest string given to toUCS2 and toUserComment
MaxStrLen == 3

\* longest enumerated string given to escapeXml
MaxEscapeLen == 3

VARIABLES
  binaryStr,    \* insertXmp: the binary string argument
  xmpXml,       \* insertXmp: the XMP text argument
  offset,       \* insertXmp: the scan cursor `offset`
  xmpPc,        \* insertXmp: "scan" while in the loop, "done" after return
  finalBinary,  \* insertXmp: the returned string
  photos,                 \* App: the photo collection (useState photos)
  keepOriginalFilenames,  \* App: the naming setting
  isZipping,              \* App: the zipping flag
  alerts,                 \* the messages shown with alert(), in order
  downloads,              \* the downloads offered with link.click(), in order
  piexifLoaded,           \* window.piexif is set
  jszipLoaded,            \* window.JSZip is set
  calls,        \* the export calls made so far, in the order they began:
                \*   entry       the function entered
                \*   keep        its keepOriginal argument
                \*   allPc       downloadAllImages: "idle", "awaiting" (the
                \*               zip), "done"
                \*   zipPhotos   createZipWithMetadata: the argument `photos`
                \*   zipStage    per item "pending", "reading", "embedding",
                \*               "written", "skipped" (no metadata) or
                \*               "failed" (the step that rejected the call)
                \*   zipHeld     per item the promise of embedMetadata the
                \*               loop awaits
                \*   zipEntries  the folder.file calls, in order
                \*   zipOutcome  its promise, "none", "pending", "generating",
                \*               "resolved" or "rejected"
                \*   zipError    what rejected it, "" if nothing
                \*   dlPc        processAndDownloadSingleImage: "idle",
                \*               "reading", "embedding", "done" or "failed"
                \*   dlPhoto     its argument `photo`, Null if none
                \*   dlHeld      the promise of embedMetadata it awaits
                \*   embeds      its calls of embedMetadata, with their results
  upscales,     \* the upscale calls made so far, in the order they began:
                \*   all   made by handleUpscaleAll, not by a card
                \*   pc    "awaiting" upscaleImage, or "ended"
                \*   id    the photo upscaleImage is awaited for
                \*   file  the file handed to upscaleImage
                \*   rest  the photos the loop of handleUpscaleAll has left
  tasks,        \* the calls of processPhoto: photo id, file, and the await
                \*   they stand at or "done" / "failed" once they ended
  nextId,       \* stands for generateId: the number of the next fresh id
  callee,       \* a function called on its own: its name, "none" if no call
  args,         \* a function called on its own: its arguments
  returned      \* a function called on its own: what it returned, or Pending

xmpVars == <<binaryStr, xmpXml, offset, xmpPc, finalBinary>>

appVars == <<photos, keepOriginalFilenames, isZipping, alerts, downloads>>

procVars == <<tasks, nextId>>

envVars == <<piexifLoaded, jszipLoaded>>

exportVars == <<envVars, calls>>

fnVars == <<callee, args, returned>>

vars == <<xmpVars, appVars, procVars, exportVars, upscales, fnVars>>

(* --------------------------- string helpers ---------------------------- *)

\* charCodeAt past the end of the string yields NaN
NaN == -1

\* String.prototype.charCodeAt(i), i counted from 0
charCodeAt(s, i) == IF i >= 0 /\ i < Len(s) THEN s[i + 1] ELSE NaN

\* String.prototype.slice(from, to) for non-negative arguments (clamped)
slice(s, from, to) ==
  LET f == IF from > Len(s) THEN Len(s) ELSE from
      t == IF to > Len(s) THEN Len(s) ELSE to
  IN  IF t <= f THEN << >> ELSE SubSeq(s, f + 1, t)

\* String.prototype.slice(from)
sliceFrom(s, from) == slice(s, from, Len(s))

\* ToInt32 of a code unit or NaN, as the operands of << and | are converted
ToInt32(x) == IF x = NaN THEN 0 ELSE x

(* ------------------------------ insertXmp ------------------------------ *)

\* "http://ns.adobe.com/xap/1.0/\0"
xmpHeader ==
  <<104, 116, 116, 112, 58, 47, 47, 110, 115, 46, 97, 100, 111, 98, 101, 46,
    99, 111, 109, 47, 120, 97, 112, 47, 49, 46, 48, 47, 0>>

\* xmpPayload = xmpHeader + xmpXml
xmpPayload(xml) == xmpHeader \o xml

\* String.fromCharCode((length >> 8) & 0xFF, length & 0xFF), length = 2 + payload
lengthBytes(xml) ==
  LET length == 2 + Len(xmpPayload(xml))
  IN  <<(length \div 256) % 256, length % 256>>

\* segment = "\xFF\xE1" + lengthBytes + xmpPayload
segment(xml) == <<255, 225>> \o lengthBytes(xml) \o xmpPayload(xml)

\* the loop condition and both ifs: a marker prefix at the cursor followed by
\* 0xE0 (JFIF) or 0xE1 (Exif)
scanContinues(bin, off) ==
  /\ off < Len(bin)
  /\ charCodeAt(bin, off) = 255
  /\ charCodeAt(bin, off + 1) \in {224, 225}

\* a length field read low byte first
segmentLenLittleEndian(bin, off) ==
  ToInt32(charCodeAt(bin, off + 3)) * 256 + ToInt32(charCodeAt(bin, off + 2))

\* len = (len1 << 8) | len2 of the segment at the cursor.  The operands are
\* code units of a binary string (0..255) or NaN, so the bitwise or is a sum.
segmentLen(bin, off) ==
  LET len1 == ToInt32(charCodeAt(bin, off + 2))
      len2 == ToInt32(charCodeAt(bin, off + 3))
  IN  len1 * 256 + len2

\* a scan that forgets the two marker bytes
scanAdvanceNoMarker(bin, off) == off + segmentLen(bin, off)

\* `offset = 2 + len` written for `offset += 2 + len`
scanAdvanceAssign(bin, off) == 2 + segmentLen(bin, off)

\* offset += 2 + len
scanAdvance(bin, off) == off + 2 + segmentLen(bin, off)

\* a splice that writes the new segment over the segments it skipped
spliceReplacing(bin, off, seg) == slice(bin, 0, 2) \o seg \o sliceFrom(bin, off)

\* binaryStr.slice(0, offset) + segment + binaryStr.slice(offset)
splice(bin, off, seg) == slice(bin, 0, off) \o seg \o sliceFrom(bin, off)

\* the value of `offset` when the while loop ends, the cursor starting at off
RECURSIVE scanLoop(_, _)
scanLoop(bin, off) ==
  IF scanContinues(bin, off) THEN scanLoop(bin, scanAdvance(bin, off)) ELSE off

\* insertXmp as a function: the loop run to its end, then the splice
insertXmp(bin, xml) == splice(bin, scanLoop(bin, 2), segment(xml))

\* no promise is awaited
NoPromise == [settled |-> "none"]

(* ----------------- the parts a specification leaves idle --------------- *)

\* insertXmp is not running
IdleXmp ==
  /\ binaryStr = << >> /\ xmpXml = << >> /\ offset = 0
  /\ xmpPc = "idle" /\ finalBinary = << >>

\* the page takes no part: it stays as it is mounted without a stored
\* naming setting
IdleApp ==
  /\ photos = << >> /\ keepOriginalFilenames = FALSE /\ isZipping = FALSE
  /\ alerts = << >> /\ downloads = << >>
  /\ tasks = {} /\ nextId = 1 /\ upscales = << >>

\* the page right after mount: no photos, nothing shown, the naming setting
\* true when localStorage holds "true" under photagg_keep_filenames
MountedApp ==
  /\ photos = << >> /\ keepOriginalFilenames \in BOOLEAN /\ isZipping = FALSE
  /\ alerts = << >> /\ downloads = << >>
  /\ tasks = {} /\ nextId = 1 /\ upscales = << >>

\* the call has not returned
Pending == [pending |-> TRUE]

\* no function is called on its own
IdleFn == callee = "none" /\ args = << >> /\ returned = Pending

\* no export was started
IdleExport ==
  /\ piexifLoaded = TRUE /\ jszipLoaded = TRUE /\ calls = << >>

(* ------------------------- the naming checkbox ------------------------- *)

\* onChange of the "Keep original filenames" checkbox:
\* setKeepOriginalFilenames(e.target.checked); the effect then stores the
\* setting, which the next mount reads
setKeepOriginalFilenames(checked) ==
  /\ checked # keepOriginalFilenames
  /\ keepOriginalFilenames' = checked
  /\ UNCHANGED <<fnVars, xmpVars, upscales, procVars, photos, isZipping, alerts, downloads,
                 exportVars>>

(* ------------------- insertXmp, one iteration per step ----------------- *)

\* bytes the enumerated buffers are made of: the marker prefix, APP0, APP1,
\* and the length bytes 0 and 2
XmpAlphabet == {255, 224, 225, 0, 2}

\* start-of-image marker FF D8
SOI == <<255, 216>>

\* SOI, a 20-byte APP0 segment (marker, length 18, "JFIF\0" and 11 more bytes), EOI
Jfif20Jpeg ==
  SOI \o <<255, 224, 0, 18, 74, 70, 73, 70, 0, 1, 2, 0, 0, 72, 0, 72, 0, 0, 0, 0>>
      \o <<255, 217>>

\* SOI, the usual 18-byte JFIF APP0 (length 16), a quantisation table marker
Jfif18Jpeg ==
  SOI \o <<255, 224, 0, 16, 74, 70, 73, 70, 0, 1, 1, 0, 0, 1, 0, 1, 0, 0>>
      \o <<255, 219, 0, 2, 255, 217>>

\* SOI, APP0 (length 4), APP1 (length 3), EOI: a run of two skipped segments
TwoSegJpeg ==
  SOI \o <<255, 224, 0, 4, 7, 7>> \o <<255, 225, 0, 3, 9>> \o <<255, 217>>

\* SOI, APP1 whose length field points past the end of the buffer
OverlongJpeg == SOI \o <<255, 225, 0, 200, 1, 2, 3>>

\* SOI and EOI only
MinimalJpeg == SOI \o <<255, 217>>

XmpBuffers ==
  {SOI \o t : t \in UNION {[1..n -> XmpAlphabet] : n \in 0..MaxTailLen}}
    \cup {<< >>, <<255>>, MinimalJpeg, Jfif20Jpeg, Jfif18Jpeg, TwoSegJpeg,
          OverlongJpeg}

\* XMP texts: empty, "<x/>", and "a&b"
XmpTexts == {<< >>, <<60, 120, 47, 62>>, <<97, 38, 98>>}

\* an XMP text of LongXmpLen code units 'a': with the 29 of the header and
\* the 2 of the length field, 65536 at the least
LongXmpText == [i \in 1..LongXmpLen |-> 97]

\* `let offset = 2`, the segment already built from the arguments
InitXmp ==
  /\ IdleApp /\ IdleExport /\ IdleFn
  /\ \/ binaryStr \in XmpBuffers /\ xmpXml \in XmpTexts
     \/ binaryStr \in {MinimalJpeg, Jfif18Jpeg} /\ xmpXml = LongXmpText
  /\ offset = 2
  /\ xmpPc = "scan"
  /\ finalBinary = << >>

\* one iteration of the while loop that skips an APP0/APP1 segment
insertXmpSkip ==
  /\ xmpPc = "scan"
  /\ scanContinues(binaryStr, offset)
  /\ offset' = scanAdvance(binaryStr, offset)
  /\ UNCHANGED <<binaryStr, xmpXml, xmpPc, finalBinary, upscales, appVars, procVars, exportVars,
               fnVars>>

\* the loop ends (condition false or break) and the function returns
insertXmpReturn ==
  /\ xmpPc = "scan"
  /\ ~scanContinues(binaryStr, offset)
  /\ finalBinary' = splice(binaryStr, offset, segment(xmpXml))
  /\ xmpPc' = "done"
  /\ UNCHANGED <<binaryStr, xmpXml, offset, upscales, appVars, procVars, exportVars, fnVars>>

NextXmp == insertXmpSkip \/ insertXmpReturn

SpecXmp == InitXmp /\ [][NextXmp]_vars

\* insertXmp runs on: a call that can take a step takes one
SpecXmpFair == SpecXmp /\ WF_vars(NextXmp)

(* ----------------------------- text encoders -------------------------- *)

\* Array.prototype.join of a list of strings with a separator
RECURSIVE join(_, _)
join(list, sep) ==
  IF list = << >> THEN << >>
  ELSE IF Len(list) = 1 THEN list[1]
  ELSE list[1] \o sep \o join(Tail(list), sep)

\* concatenation of a list of strings (join(''))
RECURSIVE concat(_)
concat(list) == IF list = << >> THEN << >> ELSE list[1] \o concat(Tail(list))

\* toUCS2 with every code unit high byte first
toUCS2BigEndian(str) ==
  [i \in 1..(2 * Len(str)) |->
     IF i % 2 = 1 THEN (str[(i + 1) \div 2] \div 256) % 256
                  ELSE str[i \div 2] % 256] \o <<0, 0>>

\* toUCS2: every code unit low byte first, then the two-byte terminator
toUCS2(str) ==
  [i \in 1..(2 * Len(str)) |->
     IF i % 2 = 1 THEN str[(i + 1) \div 2] % 256
                  ELSE (str[i \div 2] \div 256) % 256] \o <<0, 0>>

\* toUserComment without the & 0xFF
toUserCommentWide(str) ==
  <<65, 83, 67, 73, 73, 0, 0, 0>> \o [i \in 1..Len(str) |-> str[i]]

\* toUserComment: "ASCII\0\0\0" and the low 8 bits of every code unit
toUserComment(str) ==
  <<65, 83, 67, 73, 73, 0, 0, 0>> \o [i \in 1..Len(str) |-> str[i] % 256]

\* the replacement with '&' left as it is
escapeCharKeepsAmp(c) ==
  CASE c = 60 -> <<38, 108, 116, 59>>
    [] c = 62 -> <<38, 103, 116, 59>>
    [] c = 39 -> <<38, 97, 112, 111, 115, 59>>
    [] c = 34 -> <<38, 113, 117, 111, 116, 59>>
    [] OTHER  -> <<c>>

\* the replacement escapeXml's callback returns for one code unit
escapeChar(c) ==
  CASE c = 60 -> <<38, 108, 116, 59>>              \* <  &lt;
    [] c = 62 -> <<38, 103, 116, 59>>              \* >  &gt;
    [] c = 38 -> <<38, 97, 109, 112, 59>>          \* &  &amp;
    [] c = 39 -> <<38, 97, 112, 111, 115, 59>>     \* '  &apos;
    [] c = 34 -> <<38, 113, 117, 111, 116, 59>>    \* "  &quot;
    [] OTHER  -> <<c>>

\* escapeXml without the g flag: only the first match is replaced
escapeXmlFirst(unsafe) ==
  LET special == {i \in 1..Len(unsafe) : unsafe[i] \in {60, 62, 38, 39, 34}}
  IN  concat([i \in 1..Len(unsafe) |->
                IF i \in special /\ \A j \in special : i <= j
                THEN escapeChar(unsafe[i]) ELSE <<unsafe[i]>>])

\* escapeXml: unsafe.replace(/[<>&'"]/g, ...)
escapeXml(unsafe) == concat([i \in 1..Len(unsafe) |-> escapeChar(unsafe[i])])

(* --------------------------- createXmpPacket --------------------------- *)

\* the template up to ${safeTitle}
XmpPart1 ==
  <<60, 120, 58, 120, 109, 112, 109, 101, 116, 97, 32, 120, 109, 108, 110, 115,
    58, 120, 61, 34, 97, 100, 111, 98, 101, 58, 110, 115, 58, 109, 101, 116, 97,
    47, 34, 32, 120, 58, 120, 109, 112, 116, 107, 61, 34, 65, 100, 111, 98, 101,
    32, 88, 77, 80, 32, 67, 111, 114, 101, 32, 53, 46, 54, 45, 99, 49, 52, 48,
    32, 55, 57, 46, 49, 54, 48, 52, 53, 49, 44, 32, 50, 48, 49, 55, 47, 48, 53,
    47, 48, 54, 45, 48, 49, 58, 48, 56, 58, 50, 49, 32, 32, 32, 32, 32, 32, 32,
    32, 34, 62, 10, 32, 60, 114, 100, 102, 58, 82, 68, 70, 32, 120, 109, 108,
    110, 115, 58, 114, 100, 102, 61, 34, 104, 116, 116, 112, 58, 47, 47, 119,
    119, 119, 46, 119, 51, 46, 111, 114, 103, 47, 49, 57, 57, 57, 47, 48, 50,
    47, 50, 50, 45, 114, 100, 102, 45, 115, 121, 110, 116, 97, 120, 45, 110,
    115, 35, 34, 62, 10, 32, 32, 60, 114, 100, 102, 58, 68, 101, 115, 99, 114,
    105, 112, 116, 105, 111, 110, 32, 114, 100, 102, 58, 97, 98, 111, 117, 116,
    61, 34, 34, 10, 32, 32, 32, 32, 120, 109, 108, 110, 115, 58, 100, 99, 61,
    34, 104, 116, 116, 112, 58, 47, 47, 112, 117, 114, 108, 46, 111, 114, 103,
    47, 100, 99, 47, 101, 108, 101, 109, 101, 110, 116, 115, 47, 49, 46, 49, 47,
    34, 10, 32, 32, 32, 32, 120, 109, 108, 110, 115, 58, 112, 104, 111, 116,
    111, 115, 104, 111, 112, 61, 34, 104, 116, 116, 112, 58, 47, 47, 110, 115,
    46, 97, 100, 111, 98, 101, 46, 99, 111, 109, 47, 112, 104, 111, 116, 111,
    115, 104, 111, 112, 47, 49, 46, 48, 47, 34, 62, 10, 32, 32, 32, 60, 100, 99,
    58, 116, 105, 116, 108, 101, 62, 10, 32, 32, 32, 32, 60, 114, 100, 102, 58,
    65, 108, 116, 62, 10, 32, 32, 32, 32, 32, 60, 114, 100, 102, 58, 108, 105,
    32, 120, 109, 108, 58, 108, 97, 110, 103, 61, 34, 120, 45, 100, 101, 102,
    97, 117, 108, 116, 34, 62>>

\* the template between ${safeTitle} and ${safeDesc}
XmpPart2 ==
  <<60, 47, 114, 100, 102, 58, 108, 105, 62, 10, 32, 32, 32, 32, 60, 47, 114,
    100, 102, 58, 65, 108, 116, 62, 10, 32, 32, 32, 60, 47, 100, 99, 58, 116,
    105, 116, 108, 101, 62, 10, 32, 32, 32, 60, 100, 99, 58, 100, 101, 115, 99,
    114, 105, 112, 116, 105, 111, 110, 62, 10, 32, 32, 32, 32, 60, 114, 100,
    102, 58, 65, 108, 116, 62, 10, 32, 32, 32, 32, 32, 60, 114, 100, 102, 58,
    108, 105, 32, 120, 109, 108, 58, 108, 97, 110, 103, 61, 34, 120, 45, 100,
    101, 102, 97, 117, 108, 116, 34, 62>>

\* the template between ${safeDesc} and ${keywordsXml}
XmpPart3 ==
  <<60, 47, 114, 100, 102, 58, 108, 105, 62, 10, 32, 32, 32, 32, 60, 47, 114,
    100, 102, 58, 65, 108, 116, 62, 10, 32, 32, 32, 60, 47, 100, 99, 58, 100,
    101, 115, 99, 114, 105, 112, 116, 105, 111, 110, 62, 10, 32, 32, 32, 60,
    100, 99, 58, 115, 117, 98, 106, 101, 99, 116, 62, 10, 32, 32, 32, 32, 60,
    114, 100, 102, 58, 66, 97, 103, 62, 10, 32, 32, 32, 32, 32>>

\* the template between ${keywordsXml} and the category element
XmpPart4 ==
  <<10, 32, 32, 32, 32, 60, 47, 114, 100, 102, 58, 66, 97, 103, 62, 10, 32, 32,
    32, 60, 47, 100, 99, 58, 115, 117, 98, 106, 101, 99, 116, 62, 10, 32, 32,
    32>>

\* the template after the category element
XmpPart5 ==
  <<10, 32, 32, 60, 47, 114, 100, 102, 58, 68, 101, 115, 99, 114, 105, 112, 116,
    105, 111, 110, 62, 10, 32, 60, 47, 114, 100, 102, 58, 82, 68, 70, 62, 10,
    60, 47, 120, 58, 120, 109, 112, 109, 101, 116, 97, 62>>

\* "<rdf:li>" and "</rdf:li>"
RdfLiOpen == <<60, 114, 100, 102, 58, 108, 105, 62>>
RdfLiClose == <<60, 47, 114, 100, 102, 58, 108, 105, 62>>

\* "<photoshop:Category>" and "</photoshop:Category>"
CategoryOpen ==
  <<60, 112, 104, 111, 116, 111, 115, 104, 111, 112, 58, 67, 97, 116, 101, 103,
    111, 114, 121, 62>>
CategoryClose ==
  <<60, 47, 112, 104, 111, 116, 111, 115, 104, 111, 112, 58, 67, 97, 116, 101,
    103, 111, 114, 121, 62>>

\* keywords.map(k => `<rdf:li>${escapeXml(k)}</rdf:li>`).join('')
keywordsXml(keywords) ==
  concat([i \in 1..Len(keywords) |->
            RdfLiOpen \o escapeXml(keywords[i]) \o RdfLiClose])

\* createXmpPacket with the category element written for every category
createXmpPacketAlwaysCategory(title, description, keywords, category) ==
  XmpPart1 \o escapeXml(title) \o XmpPart2 \o escapeXml(description) \o XmpPart3
    \o keywordsXml(keywords) \o XmpPart4
    \o CategoryOpen \o escapeXml(category) \o CategoryClose
    \o XmpPart5

\* createXmpPacket; an absent or empty category is the empty string
createXmpPacket(title, description, keywords, category) ==
  LET safeTitle    == escapeXml(title)
      safeDesc     == escapeXml(description)
      safeCategory == IF category # << >> THEN escapeXml(category) ELSE << >>
  IN  XmpPart1 \o safeTitle \o XmpPart2 \o safeDesc \o XmpPart3
        \o keywordsXml(keywords) \o XmpPart4
        \o (IF safeCategory # << >>
            THEN CategoryOpen \o safeCategory \o CategoryClose ELSE << >>)
        \o XmpPart5

(* ------------------------------- base64 -------------------------------- *)

\* the base64 alphabet: the character of a 6-bit value
b64Char(v) ==
  IF v < 26 THEN 65 + v
  ELSE IF v < 52 THEN 97 + (v - 26)
  ELSE IF v < 62 THEN 48 + (v - 52)
  ELSE IF v = 62 THEN 43 ELSE 47

\* the 6-bit value of a base64 character, NaN for any other character
b64Index(c) ==
  IF c >= 65 /\ c <= 90 THEN c - 65
  ELSE IF c >= 97 /\ c <= 122 THEN c - 97 + 26
  ELSE IF c >= 48 /\ c <= 57 THEN c - 48 + 52
  ELSE IF c = 43 THEN 62
  ELSE IF c = 47 THEN 63 ELSE NaN

\* btoa throws InvalidCharacterError on a code unit above 0xFF
btoaThrows(bin) == \E i \in 1..Len(bin) : bin[i] > 255

\* btoa of a binary string
btoa(bin) ==
  LET n == Len(bin)
      byteAt(k) == IF k <= n THEN bin[k] ELSE 0
  IN  [q \in 1..(4 * ((n + 2) \div 3)) |->
         LET g   == (q - 1) \div 4
             j   == (q - 1) % 4
             rem == n - 3 * g
             v   == byteAt(3 * g + 1) * 65536 + byteAt(3 * g + 2) * 256
                      + byteAt(3 * g + 3)
         IN  IF (j = 2 /\ rem < 2) \/ (j = 3 /\ rem < 3) THEN 61
             ELSE b64Char(CASE j = 0 -> v \div 262144
                            [] j = 1 -> (v \div 4096) % 64
                            [] j = 2 -> (v \div 64) % 64
                            [] OTHER -> v % 64)]

\* atob, step 1 and 2: ASCII whitespace removed, then up to two trailing '='
\* removed when the length is a multiple of 4
atobStripped(str) ==
  LET noWs == SelectSeq(str, LAMBDA c : c \notin {9, 10, 12, 13, 32})
      n    == Len(noWs)
  IN  IF n > 0 /\ n % 4 = 0 /\ noWs[n] = 61
      THEN IF noWs[n - 1] = 61 THEN SubSeq(noWs, 1, n - 2)
                               ELSE SubSeq(noWs, 1, n - 1)
      ELSE noWs

\* atob throws InvalidCharacterError: length 1 mod 4, or a foreign character
atobThrows(str) ==
  LET t == atobStripped(str)
  IN  \/ Len(t) % 4 = 1
      \/ \E i \in 1..Len(t) : b64Index(t[i]) = NaN

\* atob of a string it accepts
atob(str) ==
  LET t == atobStripped(str)
      sext(k) == IF k <= Len(t) THEN b64Index(t[k]) ELSE 0
  IN  [j \in 1..((Len(t) * 6) \div 8) |->
         LET p == 8 * (j - 1)
             k == p \div 6
             r == p % 6
             w == sext(k + 1) * 64 + sext(k + 2)
         IN  CASE r = 0 -> (w \div 16) % 256
               [] r = 2 -> (w \div 4) % 256
               [] OTHER -> w % 256]

(* --------------------------- comma handling ---------------------------- *)

\* the first position of code unit c in s, 0 when s does not hold it
firstIndex(s, c) ==
  IF \E i \in 1..Len(s) : s[i] = c
  THEN CHOOSE i \in 1..Len(s) : s[i] = c /\ \A j \in 1..(i - 1) : s[j] # c
  ELSE 0

\* the last position of code unit c in s, 0 when s does not hold it
lastIndex(s, c) ==
  IF \E i \in 1..Len(s) : s[i] = c
  THEN CHOOSE i \in 1..Len(s) : s[i] = c /\ \A j \in (i + 1)..Len(s) : s[j] # c
  ELSE 0

\* s.includes(',')
includesComma(s) == firstIndex(s, 44) # 0

\* s.split(',')[1] of a string that holds a comma: what lies between the
\* first comma and the second (or the end)
splitComma1(s) ==
  LET rest == SubSeq(s, firstIndex(s, 44) + 1, Len(s))
      nxt  == firstIndex(rest, 44)
  IN  IF nxt = 0 THEN rest ELSE SubSeq(rest, 1, nxt - 1)

(* ------------------------------ PhotoItem ------------------------------ *)

\* JSON null, as the value of PhotoItem.data
Null == [null |-> TRUE]

\* photo.data is truthy: the field is set and is not null
hasData(photo) == "data" \in DOMAIN photo /\ photo.data # Null

\* a metadata field is truthy: present and not the empty string or list
truthy(meta, field) == field \in DOMAIN meta /\ meta[field] # << >>

(* -------------------------- constructFileName -------------------------- *)

\* [a-z0-9] under the i flag
isAlnum(c) ==
  (c >= 48 /\ c <= 57) \/ (c >= 65 /\ c <= 90) \/ (c >= 97 /\ c <= 122)

\* the title with the substring(0, 50) left out
sanitizeTitleUncut(title) ==
  [i \in 1..Len(title) |->
     IF ~isAlnum(title[i]) THEN 95
     ELSE IF title[i] >= 65 /\ title[i] <= 90 THEN title[i] + 32
     ELSE title[i]]

\* title.replace(/[^a-z0-9]/gi, '_').toLowerCase().substring(0, 50)
sanitizeTitle(title) ==
  slice([i \in 1..Len(title) |->
           IF ~isAlnum(title[i]) THEN 95
           ELSE IF title[i] >= 65 /\ title[i] <= 90 THEN title[i] + 32
           ELSE title[i]], 0, 50)

\* name.split('.').pop() || 'jpg'
fileExtension(name) ==
  LET dot  == lastIndex(name, 46)
      last == IF dot = 0 THEN name ELSE SubSeq(name, dot + 1, Len(name))
  IN  IF last = << >> THEN <<106, 112, 103>> ELSE last

\* the name cut at its first '.' instead of its last
originalBaseFirstDot(name) ==
  LET dot == firstIndex(name, 46)
  IN  IF dot # 0 THEN SubSeq(name, 1, dot - 1) ELSE name

\* the keepOriginal base: the name up to its last '.', or the whole name
originalBase(name) ==
  LET dot == lastIndex(name, 46)
  IN  IF dot # 0 THEN SubSeq(name, 1, dot - 1) ELSE name

\* constructFileName raises a TypeError: photo.data.title.replace on a title
\* that is undefined
constructFileNameThrows(photo, keepOriginal) ==
  hasData(photo) /\ ~keepOriginal /\ "title" \notin DOMAIN photo.data

\* constructFileName, when it returns
constructFileName(photo, keepOriginal) ==
  IF ~hasData(photo) THEN photo.file.name
  ELSE LET extension      == fileExtension(photo.file.name)
           categorySuffix == IF truthy(photo.data, "category")
                             THEN <<40>> \o photo.data.category \o <<41>>
                             ELSE << >>
           baseName       == IF keepOriginal
                             THEN originalBase(photo.file.name)
                             ELSE sanitizeTitle(photo.data.title)
       IN  baseName \o categorySuffix \o <<46>> \o extension

(* ----------------------------- fileToBase64 ---------------------------- *)

\* `data:${type};base64,${base64}`
dataUrl(type, base64) ==
  <<100, 97, 116, 97, 58>> \o type \o <<59, 98, 97, 115, 101, 54, 52, 44>>
    \o base64

\* fileToBase64 when the read succeeds: readAsDataURL, then split(',')[1]
fileToBase64(file) == splitComma1(dataUrl(file.type, btoa(file.bytes)))

(* --------------------- the EXIF codec (window.piexif) ------------------ *)

\* what a call of the codec may do beyond what its input decides: work, or
\* raise in dump, or raise in insert
CodecFaults == {"none", "dump", "insert"}

\* "Exif\0\0"
ExifMagic == <<69, 120, 105, 102, 0, 0>>

\* piexif.dump: a stand-in for the TIFF serialisation, the magic followed by
\* the byte-valued tags in the order the object lists them
piexifDump(exifObj) ==
  ExifMagic \o exifObj.XPTitle \o exifObj.XPComment \o exifObj.XPKeywords
    \o exifObj.XPSubject \o exifObj.UserComment

\* piexif's walk over the marker segments up to start-of-scan (FF DA) finds
\* the end of the data first ("Wrong JPEG data.")
RECURSIVE piexifNoScan(_, _)
piexifNoScan(jpeg, head) ==
  IF slice(jpeg, head, head + 2) = <<255, 218>> THEN FALSE
  ELSE IF head + 4 > Len(jpeg) THEN TRUE
  ELSE LET endPoint == head + 2 + jpeg[head + 3] * 256 + jpeg[head + 4]
       IN  IF endPoint >= Len(jpeg) THEN TRUE ELSE piexifNoScan(jpeg, endPoint)

\* piexif.insert raises: the base64 does not decode, the data does not start
\* with FF D8, or its segments cannot be walked
piexifInsertThrows(exifBytes, url) ==
  \/ atobThrows(splitComma1(url))
  \/ LET jpeg == atob(splitComma1(url))
     IN  slice(jpeg, 0, 2) # <<255, 216>> \/ piexifNoScan(jpeg, 2)

\* piexif.insert of a JPEG without an Exif segment: the APP1 Exif segment
\* follows start-of-image, the result is a data URL again
piexifInsert(exifBytes, url) ==
  LET jpeg    == atob(splitComma1(url))
      n       == Len(exifBytes) + 2
      exifStr == <<255, 225, (n \div 256) % 256, n % 256>> \o exifBytes
  IN  dataUrl(<<105, 109, 97, 103, 101, 47, 106, 112, 101, 103>>,
              btoa(slice(jpeg, 0, 2) \o exifStr \o sliceFrom(jpeg, 2)))

(* ----------------------------- embedMetadata --------------------------- *)

\* base64Data.includes(',') ? base64Data.split(',')[1] : base64Data
cleanBase64(base64Data) ==
  IF includesComma(base64Data) THEN splitComma1(base64Data) ELSE base64Data

\* the category put before the keywords instead of after them
finalKeywordsCategoryFirst(meta) ==
  IF truthy(meta, "category") THEN <<meta.category>> \o meta.keywords
  ELSE meta.keywords

\* category ? [...keywords, category] : keywords
finalKeywords(meta) ==
  IF truthy(meta, "category") THEN Append(meta.keywords, meta.category)
  ELSE meta.keywords

\* the tags of exifObj ("0th" and "Exif"; "GPS" and "1st" are empty)
exifObj(meta) ==
  [ImageDescription |-> meta.description,
   XPTitle          |-> toUCS2(meta.title),
   XPComment        |-> toUCS2(meta.description),
   XPKeywords       |-> toUCS2(join(finalKeywords(meta), <<59>>)),
   XPSubject        |-> toUCS2(meta.description),
   Software         |-> <<80, 104, 111, 116, 97, 103, 103, 32, 65, 73>>,
   UserComment      |-> toUserComment(meta.description)]

\* an argument that is undefined makes the try block raise a TypeError: the
\* spread of keywords, str.length in toUCS2, finalKeywords.join
argsThrow(meta) == ~({"title", "description", "keywords"} \subseteq DOMAIN meta)

\* exifModifiedBase64: the data URL piexif.insert returns
exifModifiedBase64(base64Data, meta) ==
  piexifInsert(piexifDump(exifObj(meta)),
               dataUrl(<<105, 109, 97, 103, 101, 47, 106, 112, 101, 103>>,
                       cleanBase64(base64Data)))

\* finalBinary of embedMetadata: the EXIF-modified binary with the XMP spliced in
embeddedBinary(base64Data, meta) ==
  insertXmp(atob(splitComma1(exifModifiedBase64(base64Data, meta))),
            createXmpPacket(meta.title, meta.description, finalKeywords(meta),
                            IF truthy(meta, "category") THEN meta.category
                            ELSE << >>))

\* some step of the try block raises
tryThrows(base64Data, meta, fault) ==
  \/ argsThrow(meta)
  \/ fault = "dump"
  \/ fault = "insert"
  \/ piexifInsertThrows(piexifDump(exifObj(meta)),
                        dataUrl(<<105, 109, 97, 103, 101, 47, 106, 112, 101, 103>>,
                                cleanBase64(base64Data)))
  \/ atobThrows(splitComma1(exifModifiedBase64(base64Data, meta)))
  \/ btoaThrows(embeddedBinary(base64Data, meta))

\* embedMetadata without its try/catch: a raise rejects the promise
embedMetadataUncaught(base64Data, meta, loaded, fault) ==
  IF ~loaded
  THEN [settled |-> "resolved", path |-> "noCodec", value |-> base64Data]
  ELSE IF tryThrows(base64Data, meta, fault)
  THEN [settled |-> "rejected", path |-> "raised", value |-> << >>]
  ELSE [settled |-> "resolved", path |-> "embedded",
        value |-> btoa(embeddedBinary(base64Data, meta))]

\* embedMetadata whose catch block keeps the EXIF-modified image when a step
\* after piexif.insert raised
embedMetadataKeepsExif(base64Data, meta, loaded, fault) ==
  IF ~loaded
  THEN [settled |-> "resolved", path |-> "noCodec", value |-> base64Data]
  ELSE IF \/ argsThrow(meta) \/ fault # "none"
          \/ piexifInsertThrows(piexifDump(exifObj(meta)),
                                dataUrl(<<105, 109, 97, 103, 101, 47, 106, 112, 101, 103>>,
                                        cleanBase64(base64Data)))
  THEN [settled |-> "resolved", path |-> "caught",
        value |-> cleanBase64(base64Data)]
  ELSE IF tryThrows(base64Data, meta, fault)
  THEN [settled |-> "resolved", path |-> "caught",
        value |-> splitComma1(exifModifiedBase64(base64Data, meta))]
  ELSE [settled |-> "resolved", path |-> "embedded",
        value |-> btoa(embeddedBinary(base64Data, meta))]

\* embedMetadata(base64Data, title, description, keywords, category), the four
\* metadata arguments given as the record they are read from; `loaded` is
\* window.piexif, `fault` what the codec does in this call.  The result is
\* the promise it returns and the path taken: the early return, the embedded
\* return, or the catch block.
embedMetadata(base64Data, meta, loaded, fault) ==
  IF ~loaded
  THEN [settled |-> "resolved", path |-> "noCodec", value |-> base64Data]
  ELSE IF tryThrows(base64Data, meta, fault)
  THEN [settled |-> "resolved", path |-> "caught",
        value |-> cleanBase64(base64Data)]
  ELSE [settled |-> "resolved", path |-> "embedded",
        value |-> btoa(embeddedBinary(base64Data, meta))]

(* ------------------------- the photos exported ------------------------ *)

\* "image/jpeg", "image/jpg", "image/png"
MimeJpeg == <<105, 109, 97, 103, 101, 47, 106, 112, 101, 103>>
MimeJpg == <<105, 109, 97, 103, 101, 47, 106, 112, 103>>
MimePng == <<105, 109, 97, 103, 101, 47, 112, 110, 103>>

\* SOI, start-of-scan with one data byte, EOI
ScanJpeg == SOI \o <<255, 218, 0, 2, 1>> \o <<255, 217>>

\* SOI, an APP0 segment, start-of-scan, EOI
App0Jpeg == SOI \o <<255, 224, 0, 4, 7, 7>> \o <<255, 218, 0, 2>> \o <<255, 217>>

\* the first bytes of a PNG file
PngBytes == <<137, 80, 78, 71, 13, 10>>

\* title "Red", description "A car", keywords car and red, category Nature
MetaRed ==
  [title |-> <<82, 101, 100>>, description |-> <<65, 32, 99, 97, 114>>,
   keywords |-> <<<<99, 97, 114>>, <<114, 101, 100>>>>,
   category |-> <<78, 97, 116, 117, 114, 101>>]

\* title "Sky", description "A<b", one keyword, no category
MetaSky ==
  [title |-> <<83, 107, 121>>, description |-> <<65, 60, 98>>,
   keywords |-> <<<<115, 107, 121>>>>, category |-> << >>]

\* title "\u2014" (an em dash, above Latin-1), description "A", no keywords
MetaDash ==
  [title |-> <<8212>>, description |-> <<65>>, keywords |-> << >>,
   category |-> << >>]

\* title "Car", description "A car", the keyword car listed twice
MetaTwice ==
  [title |-> <<67, 97, 114>>, description |-> <<65, 32, 99, 97, 114>>,
   keywords |-> <<<<99, 97, 114>>, <<99, 97, 114>>>>,
   category |-> <<78, 97, 116, 117, 114, 101>>]

\* a parsed response that lacks the title
MetaNoTitle ==
  [description |-> <<65, 32, 99, 97, 114>>, keywords |-> <<<<99, 97, 114>>>>,
   category |-> <<78, 97, 116, 117, 114, 101>>]

\* a photo whose generation completed with metadata meta
completedPhoto(id, name, type, bytes, meta) ==
  [id |-> id, file |-> [name |-> name, type |-> type, bytes |-> bytes],
   status |-> "COMPLETED", data |-> meta, history |-> <<meta>>,
   historyIndex |-> 0]

\* the photos an export may find in the collection: a.jpg (JPEG), d.jpg
\* (declared JPEG, PNG bytes), c.png, b.JPG (image/jpg, metadata without
\* title), and e.jpeg whose generation failed
PhotoPool ==
  {completedPhoto(1, <<97, 46, 106, 112, 103>>, MimeJpeg, ScanJpeg, MetaRed),
   completedPhoto(2, <<100, 46, 106, 112, 103>>, MimeJpeg, PngBytes, MetaRed),
   completedPhoto(3, <<99, 46, 112, 110, 103>>, MimePng, PngBytes, MetaSky),
   completedPhoto(4, <<98, 46, 74, 80, 71>>, MimeJpg, App0Jpeg, MetaNoTitle),
   [id |-> 5,
    file |-> [name |-> <<101, 46, 106, 112, 101, 103>>, type |-> MimeJpeg,
              bytes |-> ScanJpeg],
    status |-> "ERROR", error |-> "Failed to generate metadata"]}

\* the photo of the pool with this id
poolPhoto(id) == CHOOSE p \in PhotoPool : p.id = id

\* the collections exported: none, a.jpg alone, b.JPG alone (no title),
\* c.png behind the failed e.jpeg, c.png with b.JPG, and a.jpg, d.jpg and
\* c.png, of which the first two have one title and category
ExportCollections ==
  {<< >>, <<poolPhoto(1)>>, <<poolPhoto(4)>>, <<poolPhoto(5), poolPhoto(3)>>,
   <<poolPhoto(3), poolPhoto(4)>>,
   <<poolPhoto(1), poolPhoto(2), poolPhoto(3)>>}

\* payloads embedMetadata is called with directly: base64 of a JPEG, the
\* same as a data URL, base64 of a PNG, the same as a data URL, and a string
\* that is not base64
EmbedPayloads ==
  {btoa(ScanJpeg), dataUrl(MimeJpeg, btoa(ScanJpeg)), btoa(PngBytes),
   dataUrl(MimePng, btoa(PngBytes)), <<97, 98, 99, 100, 101>>}

(* ----------------------- createZipWithMetadata ------------------------- *)

\* file.type === 'image/jpeg' only
isJpegTypeStrict(type) == type = MimeJpeg

\* photo.file.type === 'image/jpeg' || photo.file.type === 'image/jpg'
isJpegType(type) == type = MimeJpeg \/ type = MimeJpg

\* a check of window.JSZip that never fails
zipLibraryNotChecked(loaded) == FALSE

\* if (!window.JSZip) throw
zipLibraryMissing(loaded) == ~loaded

\* every iteration starts at once, none awaited
mayStartEager(stage, i) == TRUE

\* the for loop reaches item i: every item before it was written or skipped
mayStart(stage, i) == \A j \in 1..(i - 1) : stage[j] \in {"written", "skipped"}

\* the loop runs on until it awaits: items without metadata are passed
\* over, the read of the next item with metadata begins
RECURSIVE advanceFrom(_, _, _)
advanceFrom(stage, ps, i) ==
  IF i > Len(ps) THEN stage
  ELSE IF stage[i] = "pending" /\ mayStart(stage, i)
  THEN advanceFrom([stage EXCEPT ![i] = IF hasData(ps[i]) THEN "reading"
                                        ELSE "skipped"], ps, i + 1)
  ELSE advanceFrom(stage, ps, i + 1)

advance(stage, ps) == advanceFrom(stage, ps, 1)

\* the loop is over: zip.generateAsync is called
loopOver(stage) == \A i \in 1..Len(stage) : stage[i] \in {"written", "skipped"}

\* the archive after the folder.file calls: one entry per name, a later
\* call with the same name replacing the earlier one
archive(entries) ==
  {[name |-> entries[i].name, data |-> entries[i].data, item |-> entries[i].item] :
     i \in {k \in 1..Len(entries) :
              \A m \in (k + 1)..Len(entries) : entries[m].name # entries[k].name}}

\* a call that has entered nothing yet
IdleCall ==
  [entry |-> "none", keep |-> FALSE, allPc |-> "idle", zipPhotos |-> << >>,
   zipStage |-> << >>, zipHeld |-> << >>, zipEntries |-> << >>,
   zipOutcome |-> "none", zipError |-> "", dlPc |-> "idle", dlPhoto |-> Null,
   dlHeld |-> NoPromise, embeds |-> << >>]

\* createZipWithMetadata(ps, keepOriginal) up to its first await: what the
\* call holds then
createZipStart(ps) ==
  LET pendingAll == [i \in 1..Len(ps) |-> "pending"]
      started    == advance(pendingAll, ps)
  IN  IF zipLibraryMissing(jszipLoaded)
      THEN [zipPhotos |-> ps, zipHeld |-> [i \in 1..Len(ps) |-> NoPromise],
            zipEntries |-> << >>, zipStage |-> pendingAll,
            zipOutcome |-> "rejected",
            zipError |-> "JSZip library not loaded"]
      ELSE [zipPhotos |-> ps, zipHeld |-> [i \in 1..Len(ps) |-> NoPromise],
            zipEntries |-> << >>, zipStage |-> started,
            zipOutcome |-> IF loopOver(started) THEN "generating" ELSE "pending",
            zipError |-> ""]

\* the rest of iteration i of the call z once base64 is final:
\* constructFileName, folder.file, and the loop runs on to its next await
zipContinue(z, i, base64) ==
  IF constructFileNameThrows(z.zipPhotos[i], z.keep)
  THEN [zipStage |-> [z.zipStage EXCEPT ![i] = "failed"],
        zipOutcome |-> "rejected", zipError |-> "TypeError"] @@ z
  ELSE LET st == advance([z.zipStage EXCEPT ![i] = "written"], z.zipPhotos)
       IN  [zipEntries |->
              Append(z.zipEntries,
                     [item |-> z.zipPhotos[i].id,
                      name |-> constructFileName(z.zipPhotos[i], z.keep),
                      data |-> base64]),
            zipStage |-> st,
            zipOutcome |-> IF loopOver(st) THEN "generating" ELSE "pending"] @@ z

\* the call is one of createZipWithMetadata, made by downloadAllImages or
\* on its own
isZipCall(z) == z.entry \in {"createZipWithMetadata", "downloadAllImages"}

\* await fileToBase64(photo.file) resolves in call c; a JPEG goes on into
\* embedMetadata, whose promise the loop then awaits
zipFileRead(c, i) ==
  /\ isZipCall(calls[c])
  /\ calls[c].zipOutcome = "pending"
  /\ calls[c].zipStage[i] = "reading"
  /\ LET z      == calls[c]
         photo  == z.zipPhotos[i]
         base64 == fileToBase64(photo.file)
     IN  IF isJpegType(photo.file.type)
         THEN \E fault \in CodecFaults :
                LET r == embedMetadata(base64, photo.data, piexifLoaded, fault)
                IN  calls' =
                      [calls EXCEPT ![c] =
                         [zipStage |-> [z.zipStage EXCEPT ![i] = "embedding"],
                          zipHeld |-> [z.zipHeld EXCEPT ![i] = r],
                          embeds |->
                            Append(z.embeds,
                                   [caller |-> "createZipWithMetadata",
                                    item |-> photo.id, input |-> base64,
                                    meta |-> photo.data, fault |-> fault,
                                    result |-> r])] @@ z]
         ELSE calls' = [calls EXCEPT ![c] = zipContinue(z, i, base64)]
  /\ UNCHANGED <<fnVars, xmpVars, upscales, procVars, appVars, envVars>>

\* await fileToBase64(photo.file) rejects (reader.onerror)
zipFileReadError(c, i) ==
  /\ isZipCall(calls[c])
  /\ calls[c].zipOutcome = "pending"
  /\ calls[c].zipStage[i] = "reading"
  /\ calls' = [calls EXCEPT ![c] =
                 [zipStage |-> [calls[c].zipStage EXCEPT ![i] = "failed"],
                  zipOutcome |-> "rejected", zipError |-> "read"] @@ calls[c]]
  /\ UNCHANGED <<fnVars, xmpVars, upscales, procVars, appVars, envVars>>

\* await embedMetadata(...) settles
zipEmbedSettled(c, i) ==
  /\ isZipCall(calls[c])
  /\ calls[c].zipOutcome = "pending"
  /\ calls[c].zipStage[i] = "embedding"
  /\ LET z    == calls[c]
         held == z.zipHeld[i]
         free == [zipHeld |-> [z.zipHeld EXCEPT ![i] = NoPromise]] @@ z
     IN  calls' =
           [calls EXCEPT ![c] =
              IF held.settled = "rejected"
              THEN [zipStage |-> [z.zipStage EXCEPT ![i] = "failed"],
                    zipOutcome |-> "rejected",
                    zipError |-> "embedMetadata"] @@ free
              ELSE zipContinue(free, i, held.value)]
  /\ UNCHANGED <<fnVars, xmpVars, upscales, procVars, appVars, envVars>>

\* await zip.generateAsync({ type: "blob" }) resolves and the function returns
zipGenerated(c) ==
  /\ isZipCall(calls[c])
  /\ calls[c].zipOutcome = "generating"
  /\ calls' = [calls EXCEPT ![c] = [zipOutcome |-> "resolved"] @@ calls[c]]
  /\ UNCHANGED <<fnVars, xmpVars, upscales, procVars, appVars, envVars>>

\* createZipWithMetadata called on its own, before any export of the page,
\* with the collection and the setting as they are
createZipWithMetadata ==
  /\ calls = << >>
  /\ calls' = Append(calls,
                     createZipStart(photos)
                       @@ [entry |-> "createZipWithMetadata",
                           keep |-> keepOriginalFilenames] @@ IdleCall)
  /\ UNCHANGED <<fnVars, xmpVars, upscales, procVars, appVars, envVars>>

(* -------------------------- downloadAllImages -------------------------- *)

\* photos.filter(p => p.status === COMPLETED && p.data)
completedPhotos(ps) ==
  SelectSeq(ps, LAMBDA p : p.status = "COMPLETED" /\ hasData(p))

\* downloadAllImages up to `await createZipWithMetadata(...)`; the menu item
\* is not disabled while an export runs
downloadAllImages ==
  /\ Len(calls) < MaxCalls
  /\ completedPhotos(photos) # << >>
  /\ isZipping' = TRUE
  /\ calls' = Append(calls,
                     createZipStart(completedPhotos(photos))
                       @@ [entry |-> "downloadAllImages", allPc |-> "awaiting",
                           keep |-> keepOriginalFilenames] @@ IdleCall)
  /\ UNCHANGED <<fnVars, xmpVars, upscales, procVars, photos, keepOriginalFilenames, alerts,
                 downloads, envVars>>

\* the await resolved: the archive is offered, then the finally block
downloadAllOffer(c) ==
  /\ calls[c].allPc = "awaiting"
  /\ calls[c].zipOutcome = "resolved"
  /\ downloads' = Append(downloads,
                         [kind |-> "zip", content |-> archive(calls[c].zipEntries)])
  /\ isZipping' = FALSE
  /\ calls' = [calls EXCEPT ![c] = [allPc |-> "done"] @@ calls[c]]
  /\ UNCHANGED <<fnVars, xmpVars, upscales, procVars, photos, keepOriginalFilenames, alerts,
                 envVars>>

\* the await rejected: the catch block alerts, then the finally block
downloadAllCatch(c) ==
  /\ calls[c].allPc = "awaiting"
  /\ calls[c].zipOutcome = "rejected"
  /\ alerts' = Append(alerts, "Failed to create zip file. See console for details.")
  /\ isZipping' = FALSE
  /\ calls' = [calls EXCEPT ![c] = [allPc |-> "done"] @@ calls[c]]
  /\ UNCHANGED <<fnVars, xmpVars, upscales, procVars, photos, keepOriginalFilenames, downloads,
                 envVars>>

(* -------------------- processAndDownloadSingleImage -------------------- *)

\* the rest of the function in call c once base64 is final:
\* constructFileName and the link click; a raise reaches the catch of
\* handleDownloadSingle
dlFinish(c, base64) ==
  LET d == calls[c]
  IN  IF constructFileNameThrows(d.dlPhoto, d.keep)
      THEN /\ calls' = [calls EXCEPT ![c] =
                          [dlPc |-> "failed", dlHeld |-> NoPromise] @@ d]
           /\ alerts' = Append(alerts, "Failed to download image. See console for details.")
           /\ UNCHANGED downloads
      ELSE /\ calls' = [calls EXCEPT ![c] =
                          [dlPc |-> "done", dlHeld |-> NoPromise] @@ d]
           /\ downloads' =
                Append(downloads,
                       [kind |-> "image", item |-> d.dlPhoto.id,
                        name |-> constructFileName(d.dlPhoto, d.keep),
                        content |-> dataUrl(d.dlPhoto.file.type, base64)])
           /\ UNCHANGED alerts

\* handleDownloadSingle(id) up to `await fileToBase64(photo.file)`, from the
\* button of a card, which is shown for a completed photo with metadata and
\* is never disabled
handleDownloadSingle(i) ==
  /\ Len(calls) < MaxCalls
  /\ photos[i].status = "COMPLETED"
  /\ hasData(photos[i])
  /\ calls' = Append(calls,
                     [entry |-> "processAndDownloadSingleImage",
                      keep |-> keepOriginalFilenames, dlPc |-> "reading",
                      dlPhoto |-> photos[i]] @@ IdleCall)
  /\ UNCHANGED <<fnVars, xmpVars, upscales, procVars, appVars, envVars>>

\* await fileToBase64(photo.file) resolves
dlFileRead(c) ==
  /\ calls[c].dlPc = "reading"
  /\ LET d      == calls[c]
         photo  == d.dlPhoto
         base64 == fileToBase64(photo.file)
     IN  IF isJpegType(photo.file.type)
         THEN \E fault \in CodecFaults :
                LET r == embedMetadata(base64, photo.data, piexifLoaded, fault)
                IN  /\ calls' =
                         [calls EXCEPT ![c] =
                            [dlPc |-> "embedding", dlHeld |-> r,
                             embeds |->
                               Append(d.embeds,
                                      [caller |-> "processAndDownloadSingleImage",
                                       item |-> photo.id, input |-> base64,
                                       meta |-> photo.data, fault |-> fault,
                                       result |-> r])] @@ d]
                    /\ UNCHANGED <<alerts, downloads>>
         ELSE dlFinish(c, base64)
  /\ UNCHANGED <<fnVars, xmpVars, upscales, procVars, photos, keepOriginalFilenames, isZipping,
                 envVars>>

\* await fileToBase64(photo.file) rejects
dlFileReadError(c) ==
  /\ calls[c].dlPc = "reading"
  /\ calls' = [calls EXCEPT ![c] = [dlPc |-> "failed"] @@ calls[c]]
  /\ alerts' = Append(alerts, "Failed to download image. See console for details.")
  /\ UNCHANGED <<fnVars, xmpVars, upscales, procVars, photos, keepOriginalFilenames, isZipping,
                 downloads, envVars>>

\* await embedMetadata(...) settles
dlEmbedSettled(c) ==
  /\ calls[c].dlPc = "embedding"
  /\ IF calls[c].dlHeld.settled = "rejected"
     THEN /\ calls' = [calls EXCEPT ![c] =
                         [dlPc |-> "failed", dlHeld |-> NoPromise] @@ calls[c]]
          /\ alerts' = Append(alerts, "Failed to download image. See console for details.")
          /\ UNCHANGED downloads
     ELSE dlFinish(c, calls[c].dlHeld.value)
  /\ UNCHANGED <<fnVars, xmpVars, upscales, procVars, photos, keepOriginalFilenames, isZipping,
                 envVars>>

(* ----------------------- embedMetadata called alone -------------------- *)

\* embedMetadata called on its own with a payload of its own
embedMetadataCall ==
  /\ calls = << >>
  /\ \E payload \in EmbedPayloads,
        meta \in {MetaRed, MetaSky, MetaNoTitle, MetaDash},
        fault \in CodecFaults :
       calls' =
         Append(calls,
                [entry |-> "embedMetadata",
                 embeds |->
                   <<[caller |-> "embedMetadata", item |-> 0, input |-> payload,
                      meta |-> meta, fault |-> fault,
                      result |-> embedMetadata(payload, meta, piexifLoaded, fault)]>>]
                  @@ IdleCall)
  /\ UNCHANGED <<fnVars, xmpVars, upscales, procVars, appVars, envVars>>

\* the calls of embedMetadata made so far, with their results, call by call
RECURSIVE embedsUpTo(_)
embedsUpTo(k) == IF k = 0 THEN << >> ELSE embedsUpTo(k - 1) \o calls[k].embeds

embedCalls == embedsUpTo(Len(calls))

(* ------------------------------- upscale ------------------------------- *)

\* what the canvas encodes for image/jpeg: SOI, the JFIF APP0 segment,
\* start-of-scan, EOI
CanvasJpeg ==
  SOI \o <<255, 224, 0, 16, 74, 70, 73, 70, 0, 1, 1, 0, 0, 1, 0, 1, 0, 0>>
      \o <<255, 218, 0, 2>> \o <<255, 217>>

\* what the canvas encodes for image/png: the PNG signature
CanvasPng == PngBytes \o <<26, 10>>

\* canvas.toBlob(cb, file.type, 0.92): a JPEG for image/jpeg, a PNG for
\* image/png and for a type the canvas does not encode (image/jpg)
canvasBytes(type) == IF type = MimeJpeg THEN CanvasJpeg ELSE CanvasPng

\* new File([blob], file.name, { type: file.type, ... }): the name and the
\* declared type of the file upscaled and nothing else of it; the bytes are
\* those of the blob, and so is the size where a file carries one
upscaleImage(file) ==
  LET blob    == canvasBytes(file.type)
      newFile == [name |-> file.name, type |-> file.type, bytes |-> blob]
  IN  IF "size" \in DOMAIN file THEN [size |-> Len(blob)] @@ newFile
      ELSE newFile

\* prev.map(p => p.id === id ? { ...p, file: newFile, previewUrl } : p)
upscaleMap(prev, id, newFile) ==
  [k \in 1..Len(prev) |->
     IF prev[k].id = id THEN [file |-> newFile] @@ prev[k] ELSE prev[k]]

\* what a call uses of the photos of its render: the id, and the file that
\* photos.find(p => p.id === id) hands to upscaleImage
idAndFile(ps) == [k \in 1..Len(ps) |-> [id |-> ps[k].id, file |-> ps[k].file]]

\* a call awaiting upscaleImage for the first photo of the queue; the photos
\* behind it are those the loop of handleUpscaleAll goes on with
upscaleCall(all, queue) ==
  [all |-> all, pc |-> "awaiting", id |-> queue[1].id, file |-> queue[1].file,
   rest |-> Tail(queue)]

\* the call once its await settled: the loop of handleUpscaleAll calls
\* handleUpscalePhoto for its next photo, or the call is over
upscaleNext(u) ==
  IF u.rest = << >> THEN [pc |-> "ended"] @@ u
  ELSE upscaleCall(u.all, u.rest)

\* useState isUpscalingAll: true from the start of handleUpscaleAll to the
\* end of its loop
isUpscalingAll ==
  \E k \in 1..Len(upscales) : upscales[k].all /\ upscales[k].pc = "awaiting"

\* PhotoCard's isUpscaling: the card's own call of onUpscale has not returned
isUpscaling(id) ==
  \E k \in 1..Len(upscales) :
    ~upscales[k].all /\ upscales[k].pc = "awaiting" /\ upscales[k].id = id

\* handleUpscalePhoto(id, scale) from the upscale menu of a card, which is
\* shown for a completed photo and hides its buttons while the card upscales
handleUpscalePhoto(i) ==
  /\ Len(upscales) < MaxUpscales
  /\ photos[i].status = "COMPLETED"
  /\ ~isUpscaling(photos[i].id)
  /\ upscales' = Append(upscales, upscaleCall(FALSE, idAndFile(<<photos[i]>>)))
  /\ UNCHANGED <<fnVars, xmpVars, procVars, appVars, exportVars>>

\* handleUpscaleAll from the modal of the Upscale All button, which is
\* disabled without a completed photo and while isUpscalingAll: the loop goes
\* over the completed photos of the render it was called in
handleUpscaleAll ==
  /\ Len(upscales) < MaxUpscales
  /\ ~isUpscalingAll
  /\ \E i \in 1..Len(photos) : photos[i].status = "COMPLETED"
  /\ upscales' =
       Append(upscales,
              upscaleCall(TRUE,
                          idAndFile(SelectSeq(photos,
                                              LAMBDA p : p.status = "COMPLETED"))))
  /\ UNCHANGED <<fnVars, xmpVars, procVars, appVars, exportVars>>

\* await upscaleImage(photo.file, ...) resolves: the photo with the id, if
\* still in the collection, gets the new file
upscaleResolved(k) ==
  /\ upscales[k].pc = "awaiting"
  /\ photos' = upscaleMap(photos, upscales[k].id, upscaleImage(upscales[k].file))
  /\ upscales' = [upscales EXCEPT ![k] = upscaleNext(upscales[k])]
  /\ UNCHANGED <<fnVars, xmpVars, procVars, keepOriginalFilenames, isZipping,
                 alerts, downloads, exportVars>>

\* await upscaleImage(photo.file, ...) rejects (the image does not load, no
\* canvas context, no blob): the catch block alerts
upscaleRejected(k) ==
  /\ upscales[k].pc = "awaiting"
  /\ alerts' = Append(alerts, "Failed to upscale image.")
  /\ upscales' = [upscales EXCEPT ![k] = upscaleNext(upscales[k])]
  /\ UNCHANGED <<fnVars, xmpVars, procVars, photos, keepOriginalFilenames,
                 isZipping, downloads, exportVars>>

(* ------------------------------ SpecExport ----------------------------- *)

InitExport ==
  /\ IdleXmp /\ IdleFn
  /\ photos \in ExportCollections
  /\ keepOriginalFilenames \in BOOLEAN
  /\ piexifLoaded \in BOOLEAN
  /\ jszipLoaded \in BOOLEAN
  /\ isZipping = FALSE /\ alerts = << >> /\ downloads = << >>
  /\ tasks = {} /\ nextId = 1 /\ upscales = << >>
  /\ calls = << >>

NextExport ==
  \/ downloadAllImages
  \/ createZipWithMetadata
  \/ \E c \in 1..Len(calls) :
       \E i \in 1..Len(calls[c].zipPhotos) : zipFileRead(c, i)
  \/ \E c \in 1..Len(calls) :
       \E i \in 1..Len(calls[c].zipPhotos) : zipFileReadError(c, i)
  \/ \E c \in 1..Len(calls) :
       \E i \in 1..Len(calls[c].zipPhotos) : zipEmbedSettled(c, i)
  \/ \E c \in 1..Len(calls) : zipGenerated(c)
  \/ \E c \in 1..Len(calls) : downloadAllOffer(c)
  \/ \E c \in 1..Len(calls) : downloadAllCatch(c)
  \/ \E i \in 1..Len(photos) : handleDownloadSingle(i)
  \/ \E c \in 1..Len(calls) : dlFileRead(c)
  \/ \E c \in 1..Len(calls) : dlFileReadError(c)
  \/ \E c \in 1..Len(calls) : dlEmbedSettled(c)
  \/ \E checked \in BOOLEAN : setKeepOriginalFilenames(checked)

SpecExport == InitExport /\ [][NextExport]_vars

(* ------------------------------- SpecEmbed ----------------------------- *)

\* embedMetadata called on its own, with the codec loaded or absent
InitEmbed ==
  /\ IdleXmp /\ IdleApp /\ IdleFn
  /\ piexifLoaded \in BOOLEAN
  /\ jszipLoaded = TRUE
  /\ calls = << >>

NextEmbed == embedMetadataCall

SpecEmbed == InitEmbed /\ [][NextEmbed]_vars

(* ------------------------ generateImageMetadata ------------------------ *)

\* what generateContent may come back with: a rejection with or without a
\* message, or a response whose text is empty, is cut off in the middle of
\* the JSON, or is the JSON of complete metadata, of metadata without
\* title, or of metadata that lists a keyword twice
Responses ==
  {[error |-> [message |-> "429 quota exceeded"]],
   [error |-> [message |-> ""]],
   [text |-> [raw |-> ""]],
   [text |-> [raw |-> "{\"title\": \"Re"]],
   [text |-> [json |-> MetaRed]],
   [text |-> [json |-> MetaNoTitle]],
   [text |-> [json |-> MetaTwice]]}

\* !text
textFalsy(text) == "raw" \in DOMAIN text /\ text.raw = ""

\* JSON.parse(text) raises a SyntaxError: the text is not JSON
jsonParseThrows(text) == "json" \notin DOMAIN text

\* the message of the SyntaxError JSON.parse(text) raises, as V8 words it:
\* the text ends inside a string, the text ends between two tokens, or the
\* text does not start a JSON value
jsonParseMessage(text) ==
  CASE text.raw = "{\"title\": \"Re" ->
         "Unterminated string in JSON at position 13"
    [] text.raw = "{\"title\": " -> "Unexpected end of JSON input"
    [] text.raw = "not json" ->
         "Unexpected token 'o', \"not json\" is not valid JSON"

\* JSON.parse(text) of the JSON of a value
jsonParse(text) == text.json

\* generateImageMetadata(base64Data, mimeType), given what generateContent
\* comes back with: the promise it returns
generateImageMetadata(response) ==
  IF "error" \in DOMAIN response
  THEN [settled |-> "rejected", error |-> response.error]
  ELSE IF textFalsy(response.text)
  THEN [settled |-> "rejected", error |-> [message |-> "No response from Gemini."]]
  ELSE IF jsonParseThrows(response.text)
  THEN [settled |-> "rejected",
        error |-> [message |-> jsonParseMessage(response.text)]]
  ELSE [settled |-> "resolved", value |-> jsonParse(response.text)]

(* ----------------------------- processPhoto ---------------------------- *)

\* the files offered for upload: a.jpg and c.png
UploadFiles ==
  {[name |-> <<97, 46, 106, 112, 103>>, type |-> MimeJpeg, bytes |-> ScanJpeg],
   [name |-> <<99, 46, 112, 110, 103>>, type |-> MimePng, bytes |-> PngBytes]}

\* the selections handed to handleFilesSelected: one or two files
UploadBatches == UNION {[1..n -> UploadFiles] : n \in 1..2}

\* the event reader.onerror rejects with: it has no message
ReadErrorEvent == [type |-> "error"]

\* error.message || "Failed to generate metadata"
errorMessage(error) ==
  IF "message" \in DOMAIN error /\ error.message # "" THEN error.message
  ELSE "Failed to generate metadata"

\* prev.map(p => ({ ...p, ...fields })), the test of the id forgotten
mapPhotoEvery(prev, photoId, fields) ==
  [i \in 1..Len(prev) |-> fields @@ prev[i]]

\* a map that puts the photo back when no photo of the collection has the id
mapPhotoUpsert(prev, photoId, fields) ==
  IF \E i \in 1..Len(prev) : prev[i].id = photoId
  THEN [i \in 1..Len(prev) |->
          IF prev[i].id = photoId THEN fields @@ prev[i] ELSE prev[i]]
  ELSE Append(prev, fields @@ [id |-> photoId])

\* prev.map(p => p.id === photoId ? { ...p, ...fields } : p)
mapPhoto(prev, photoId, fields) ==
  [i \in 1..Len(prev) |->
     IF prev[i].id = photoId THEN fields @@ prev[i] ELSE prev[i]]

\* the call processPhoto(photoId, file) at its first await
newTask(photoId, file) == [id |-> photoId, file |-> file, pc |-> "fileToBase64"]

\* the task moved on to another await or to its end
taskAt(t, pc) == [id |-> t.id, file |-> t.file, pc |-> pc]

\* the synchronous start of processPhoto for each new photo in turn: the
\* status becomes PROCESSING
RECURSIVE startEach(_, _, _)
startEach(prev, newPhotos, k) ==
  IF k > Len(newPhotos) THEN prev
  ELSE startEach(mapPhoto(prev, newPhotos[k].id, [status |-> "PROCESSING"]),
                 newPhotos, k + 1)

\* a catch block that ends the call and leaves the photo as it is
processPhotoCatchSilent(t, error) ==
  /\ photos' = photos
  /\ tasks' = (tasks \ {t}) \cup {taskAt(t, "failed")}

\* the catch block of processPhoto
processPhotoCatch(t, error) ==
  /\ photos' = mapPhoto(photos, t.id,
                        [status |-> "ERROR", error |-> errorMessage(error)])
  /\ tasks' = (tasks \ {t}) \cup {taskAt(t, "failed")}

\* the body of handleFilesSelected(files): the new photos are put in front,
\* then processPhoto starts for each
filesSelected(files) ==
  /\ LET newPhotos == [k \in 1..Len(files) |->
                         [id |-> nextId + k - 1, file |-> files[k],
                          status |-> "IDLE"]]
     IN  /\ photos' = startEach(newPhotos \o photos, newPhotos, 1)
         /\ tasks' = tasks \cup {newTask(newPhotos[k].id, newPhotos[k].file) :
                                   k \in 1..Len(newPhotos)}
  /\ nextId' = nextId + Len(files)

\* handleFilesSelected(files) called with files that passed the intake
handleFilesSelected(files) ==
  /\ nextId + Len(files) - 1 <= MaxUploads
  /\ filesSelected(files)
  /\ UNCHANGED <<fnVars, xmpVars, upscales, keepOriginalFilenames, isZipping, alerts, downloads,
                 exportVars>>

\* await fileToBase64(file) resolves: generateImageMetadata is called
processFileRead(t) ==
  /\ t.pc = "fileToBase64"
  /\ tasks' = (tasks \ {t}) \cup {taskAt(t, "generateImageMetadata")}
  /\ UNCHANGED <<fnVars, xmpVars, upscales, appVars, nextId, exportVars>>

\* await fileToBase64(file) rejects
processFileReadError(t) ==
  /\ t.pc = "fileToBase64"
  /\ processPhotoCatch(t, ReadErrorEvent)
  /\ UNCHANGED <<fnVars, xmpVars, upscales, keepOriginalFilenames, isZipping, alerts, downloads,
                 nextId, exportVars>>

\* await generateImageMetadata(base64, file.type) settles
processGenerated(t) ==
  /\ t.pc = "generateImageMetadata"
  /\ \E response \in Responses :
       LET r == generateImageMetadata(response)
       IN  IF r.settled = "resolved"
           THEN /\ photos' = mapPhoto(photos, t.id,
                                      [status |-> "COMPLETED", data |-> r.value,
                                       history |-> <<r.value>>,
                                       historyIndex |-> 0])
                /\ tasks' = (tasks \ {t}) \cup {taskAt(t, "done")}
           ELSE processPhotoCatch(t, r.error)
  /\ UNCHANGED <<fnVars, xmpVars, upscales, keepOriginalFilenames, isZipping, alerts, downloads,
                 nextId, exportVars>>

\* handleRetry(id), offered on a photo whose status is ERROR
handleRetry(i) ==
  /\ photos[i].status = "ERROR"
  /\ photos' = mapPhoto(photos, photos[i].id, [status |-> "PROCESSING"])
  /\ tasks' = {t \in tasks : t.id # photos[i].id}
                \cup {newTask(photos[i].id, photos[i].file)}
  /\ UNCHANGED <<fnVars, xmpVars, upscales, keepOriginalFilenames, isZipping, alerts, downloads,
                 nextId, exportVars>>

\* handleRemovePhoto(id)
handleRemovePhoto(i) ==
  /\ photos' = SelectSeq(photos, LAMBDA p : p.id # photos[i].id)
  /\ UNCHANGED <<fnVars, xmpVars, upscales, keepOriginalFilenames, isZipping, alerts, downloads,
                 procVars, exportVars>>

(* ------------------------- edit, undo and redo ------------------------- *)

\* the edits made on a card: a new title, another category
Updates == {[title |-> <<83, 107, 121>>], [category |-> <<70, 111, 111, 100>>]}

\* p.history || [p.data]
currentHistory(p) == IF "history" \in DOMAIN p THEN p.history ELSE <<p.data>>

\* p.historyIndex ?? 0
currentIndex(p) == IF "historyIndex" \in DOMAIN p THEN p.historyIndex ELSE 0

\* handleUpdatePhoto's map function with the historyIndex left as it was
updatedPhotoStaleIndex(p, updates) ==
  LET newData    == updates @@ p.data
      newHistory == Append(SubSeq(currentHistory(p), 1, currentIndex(p) + 1),
                           newData)
  IN  [data |-> newData, history |-> newHistory] @@ p

\* the photo after an update that appends to the whole history, the entries
\* beyond the current one included
updatedPhotoKeepsFuture(p, updates) ==
  LET newData    == updates @@ p.data
      newHistory == Append(currentHistory(p), newData)
  IN  [data |-> newData, history |-> newHistory,
       historyIndex |-> Len(newHistory) - 1] @@ p

\* the photo after handleUpdatePhoto's map function
updatedPhoto(p, updates) ==
  LET newData    == updates @@ p.data
      newHistory == Append(SubSeq(currentHistory(p), 1, currentIndex(p) + 1),
                           newData)
  IN  [data |-> newData, history |-> newHistory,
       historyIndex |-> Len(newHistory) - 1] @@ p

\* handleUpdatePhoto(id, updates)
handleUpdatePhoto(i, updates) ==
  /\ hasData(photos[i])
  /\ currentIndex(photos[i]) + 2 <= MaxHistory
  /\ photos' = [k \in 1..Len(photos) |->
                  IF photos[k].id = photos[i].id /\ hasData(photos[k])
                  THEN updatedPhoto(photos[k], updates) ELSE photos[k]]
  /\ UNCHANGED <<fnVars, xmpVars, upscales, keepOriginalFilenames, isZipping, alerts, downloads,
                 procVars, exportVars>>

\* the code units String.prototype.trim strips: the WhiteSpace and
\* LineTerminator of ECMAScript (tab, LF, VT, FF, CR, space, no-break space,
\* U+1680, U+2000..U+200A, U+2028, U+2029, U+202F, U+205F, U+3000, U+FEFF)
isWhiteSpace(c) ==
  \/ c \in {9, 10, 11, 12, 13, 32, 160, 5760, 8232, 8233, 8239, 8287, 12288,
            65279}
  \/ c \in 8192..8202

\* str.trim()
RECURSIVE trim(_)
trim(str) ==
  IF str = << >> THEN str
  ELSE IF isWhiteSpace(Head(str)) THEN trim(Tail(str))
  ELSE IF isWhiteSpace(str[Len(str)]) THEN trim(SubSeq(str, 1, Len(str) - 1))
  ELSE str

\* keywords.includes(keyword)
includes(keywords, keyword) == \E k \in 1..Len(keywords) : keywords[k] = keyword

\* the keyword typed into a card: " car " (car is a keyword already), "sky",
\* and a blank
NewKeywords == {<<32, 99, 97, 114, 32>>, <<115, 107, 121>>, <<32, 32>>}

\* the duplicate test left out: every typed keyword is new
isNewKeywordAlways(keywords, keywordToAdd) == TRUE

\* !item.data.keywords.includes(keywordToAdd)
isNewKeyword(keywords, keywordToAdd) == ~includes(keywords, keywordToAdd)

\* handleAddKeyword of the card of photo i with newKeyword typed, and the
\* handleUpdatePhoto it calls
handleAddKeyword(i, newKeyword) ==
  /\ trim(newKeyword) # << >>
  /\ hasData(photos[i])
  /\ isNewKeyword(photos[i].data.keywords, trim(newKeyword))
  /\ handleUpdatePhoto(i, [keywords |-> Append(photos[i].data.keywords,
                                               trim(newKeyword))])

\* handleRemoveKeyword of the card of photo i, on one of the keywords shown,
\* and the handleUpdatePhoto it calls
handleRemoveKeyword(i, keywordToRemove) ==
  /\ hasData(photos[i])
  /\ includes(photos[i].data.keywords, keywordToRemove)
  /\ handleUpdatePhoto(i, [keywords |-> SelectSeq(photos[i].data.keywords,
                                                  LAMBDA k : k # keywordToRemove)])

\* p.history && p.historyIndex !== undefined && p.historyIndex > 0
canUndo(p) ==
  /\ "history" \in DOMAIN p
  /\ "historyIndex" \in DOMAIN p
  /\ p.historyIndex > 0

\* p.history && p.historyIndex !== undefined
\*   && p.historyIndex < p.history.length - 1
canRedo(p) ==
  /\ "history" \in DOMAIN p
  /\ "historyIndex" \in DOMAIN p
  /\ p.historyIndex < Len(p.history) - 1

\* the photo with the history entry at newIndex (0-based) made current
atHistory(p, newIndex) ==
  [data |-> p.history[newIndex + 1], historyIndex |-> newIndex] @@ p

\* the map of handleUndo over the collection
undoMap(prev, id) ==
  [k \in 1..Len(prev) |->
     IF prev[k].id = id /\ canUndo(prev[k])
     THEN atHistory(prev[k], prev[k].historyIndex - 1)
     ELSE prev[k]]

\* handleUndo(id), on a card whose undo button is enabled
handleUndo(i) ==
  /\ canUndo(photos[i])
  /\ photos' = undoMap(photos, photos[i].id)
  /\ UNCHANGED <<fnVars, xmpVars, upscales, keepOriginalFilenames, isZipping, alerts, downloads,
                 procVars, exportVars>>

\* the map of handleRedo over the collection
redoMap(prev, id) ==
  [k \in 1..Len(prev) |->
     IF prev[k].id = id /\ canRedo(prev[k])
     THEN atHistory(prev[k], prev[k].historyIndex + 1)
     ELSE prev[k]]

\* handleRedo(id), on a card whose redo button is enabled
handleRedo(i) ==
  /\ canRedo(photos[i])
  /\ photos' = redoMap(photos, photos[i].id)
  /\ UNCHANGED <<fnVars, xmpVars, upscales, keepOriginalFilenames, isZipping, alerts, downloads,
                 procVars, exportVars>>

(* --------------------------------- Spec -------------------------------- *)

\* upload, generation, retry, removal, upscaling and the naming checkbox,
\* from the page as it is mounted
Init == IdleXmp /\ MountedApp /\ IdleExport /\ IdleFn

Next ==
  \/ \E files \in UploadBatches : handleFilesSelected(files)
  \/ \E t \in tasks : processFileRead(t)
  \/ \E t \in tasks : processFileReadError(t)
  \/ \E t \in tasks : processGenerated(t)
  \/ \E i \in 1..Len(photos) : handleRetry(i)
  \/ \E i \in 1..Len(photos) : handleRemovePhoto(i)
  \/ \E checked \in BOOLEAN : setKeepOriginalFilenames(checked)
  \/ \E i \in 1..Len(photos) : handleUpscalePhoto(i)
  \/ handleUpscaleAll
  \/ \E k \in 1..Len(upscales) : upscaleResolved(k)
  \/ \E k \in 1..Len(upscales) : upscaleRejected(k)

Spec == Init /\ [][Next]_vars

(* ------------------------------- SpecFair ------------------------------ *)

\* the next step of the processPhoto call of photo id: the file read or the
\* generation call resolves or rejects
processStep(id) ==
  \E t \in tasks :
    /\ t.id = id
    /\ processFileRead(t) \/ processFileReadError(t) \/ processGenerated(t)

\* uploads into the empty collection, generation, retry and removal
NextFair ==
  \/ \E files \in UploadBatches : photos = << >> /\ handleFilesSelected(files)
  \/ \E t \in tasks : processFileRead(t)
  \/ \E t \in tasks : processFileReadError(t)
  \/ \E t \in tasks : processGenerated(t)
  \/ \E i \in 1..Len(photos) : handleRetry(i)
  \/ \E i \in 1..Len(photos) : handleRemovePhoto(i)
  \/ \E checked \in BOOLEAN : setKeepOriginalFilenames(checked)

\* every file read and every generation call settles: the call of each photo
\* that can take a step takes one
SpecFair ==
  /\ Init /\ [][NextFair]_vars
  /\ \A id \in 1..MaxUploads : WF_vars(processStep(id))

(* ------------------------------ SpecHistory ---------------------------- *)

\* upload of one photo into the empty collection, its generation and retry,
\* edit, undo, redo and upscaling once it is generated, and the naming
\* checkbox
NextHistory ==
  \/ \E files \in UploadBatches :
       photos = << >> /\ Len(files) = 1 /\ handleFilesSelected(files)
  \/ \E t \in tasks : processFileRead(t)
  \/ \E t \in tasks : processFileReadError(t)
  \/ \E t \in tasks : processGenerated(t)
  \/ \E i \in 1..Len(photos) : handleRetry(i)
  \/ \E i \in 1..Len(photos), updates \in Updates : handleUpdatePhoto(i, updates)
  \/ \E i \in 1..Len(photos) : handleUndo(i)
  \/ \E i \in 1..Len(photos) : handleRedo(i)
  \/ \E checked \in BOOLEAN : setKeepOriginalFilenames(checked)
  \/ \E i \in 1..Len(photos) : handleUpscalePhoto(i)
  \/ handleUpscaleAll
  \/ \E k \in 1..Len(upscales) : upscaleResolved(k)
  \/ \E k \in 1..Len(upscales) : upscaleRejected(k)

SpecHistory == Init /\ [][NextHistory]_vars

(* ------------------------------- SpecEdit ------------------------------ *)

\* the keywords a card may show: those generated and those typed
ShownKeywords == {<<99, 97, 114>>, <<114, 101, 100>>, <<115, 107, 121>>}

\* the collections edited: a.jpg alone, c.png behind the failed e.jpeg, and
\* a.jpg with c.png
EditCollections ==
  {<<poolPhoto(1)>>, <<poolPhoto(5), poolPhoto(3)>>,
   <<poolPhoto(1), poolPhoto(3)>>}

\* edit, undo, redo, removal, upscaling and the naming checkbox on a
\* collection of generated photos
InitEdit ==
  /\ IdleXmp /\ IdleExport /\ IdleFn
  /\ photos \in EditCollections
  /\ keepOriginalFilenames \in BOOLEAN /\ isZipping = FALSE
  /\ alerts = << >> /\ downloads = << >>
  /\ tasks = {} /\ nextId = 1 /\ upscales = << >>

NextEdit ==
  \/ \E i \in 1..Len(photos), updates \in Updates : handleUpdatePhoto(i, updates)
  \/ \E i \in 1..Len(photos), newKeyword \in NewKeywords :
       handleAddKeyword(i, newKeyword)
  \/ \E i \in 1..Len(photos), keyword \in ShownKeywords :
       handleRemoveKeyword(i, keyword)
  \/ \E i \in 1..Len(photos) : handleUndo(i)
  \/ \E i \in 1..Len(photos) : handleRedo(i)
  \/ \E i \in 1..Len(photos) : handleRemovePhoto(i)
  \/ \E checked \in BOOLEAN : setKeepOriginalFilenames(checked)
  \/ \E i \in 1..Len(photos) : handleUpscalePhoto(i)
  \/ handleUpscaleAll
  \/ \E k \in 1..Len(upscales) : upscaleResolved(k)
  \/ \E k \in 1..Len(upscales) : upscaleRejected(k)

SpecEdit == InitEdit /\ [][NextEdit]_vars

(* ------------------------------ SpecUpscale ---------------------------- *)

\* a.jpg as the intake hands it on: the file carries its size
SizedPhoto ==
  [file |-> [size |-> Len(poolPhoto(1).file.bytes)] @@ poolPhoto(1).file]
    @@ poolPhoto(1)

\* the collections upscaled: b.JPG alone (declared image/jpg), a.jpg with
\* its size, a.jpg behind the failed e.jpeg, and c.png with b.JPG
UpscaleCollections ==
  {<<poolPhoto(4)>>, <<SizedPhoto>>, <<poolPhoto(5), poolPhoto(1)>>,
   <<poolPhoto(3), poolPhoto(4)>>}

\* upscaling, removal, the naming checkbox and one export on a collection
\* of generated photos, the archive library loaded
InitUpscale ==
  /\ IdleXmp /\ IdleFn
  /\ photos \in UpscaleCollections
  /\ keepOriginalFilenames \in BOOLEAN
  /\ piexifLoaded \in BOOLEAN
  /\ jszipLoaded = TRUE
  /\ isZipping = FALSE /\ alerts = << >> /\ downloads = << >>
  /\ tasks = {} /\ nextId = 1 /\ upscales = << >>
  /\ calls = << >>

NextUpscale ==
  \/ \E i \in 1..Len(photos) : handleUpscalePhoto(i)
  \/ handleUpscaleAll
  \/ \E k \in 1..Len(upscales) : upscaleResolved(k)
  \/ \E k \in 1..Len(upscales) : upscaleRejected(k)
  \/ \E i \in 1..Len(photos) : handleRemovePhoto(i)
  \/ calls = << >> /\ downloadAllImages
  \/ \E c \in 1..Len(calls) :
       \E i \in 1..Len(calls[c].zipPhotos) : zipFileRead(c, i)
  \/ \E c \in 1..Len(calls) :
       \E i \in 1..Len(calls[c].zipPhotos) : zipFileReadError(c, i)
  \/ \E c \in 1..Len(calls) :
       \E i \in 1..Len(calls[c].zipPhotos) : zipEmbedSettled(c, i)
  \/ \E c \in 1..Len(calls) : zipGenerated(c)
  \/ \E c \in 1..Len(calls) : downloadAllOffer(c)
  \/ \E c \in 1..Len(calls) : downloadAllCatch(c)
  \/ \E i \in 1..Len(photos) : calls = << >> /\ handleDownloadSingle(i)
  \/ \E c \in 1..Len(calls) : dlFileRead(c)
  \/ \E c \in 1..Len(calls) : dlFileReadError(c)
  \/ \E c \in 1..Len(calls) : dlEmbedSettled(c)
  \/ \E checked \in BOOLEAN : setKeepOriginalFilenames(checked)

SpecUpscale == InitUpscale /\ [][NextUpscale]_vars

(* --------------------------- intake of files --------------------------- *)

\* MAX_FILE_SIZE_BYTES = 40 * 1024 * 1024
MAX_FILE_SIZE_BYTES == 40 * 1024 * 1024

\* MAX_BATCH_SIZE
MAX_BATCH_SIZE == 50

\* "text/plain"
MimeText == <<116, 101, 120, 116, 47, 112, 108, 97, 105, 110>>

\* a file of the given type and size; its content plays no part in the intake
sizedFile(type, size) ==
  [name |-> <<97, 46, 106, 112, 103>>, type |-> type, bytes |-> ScanJpeg,
   size |-> size]

\* a JPEG of exactly 40 MB, a JPEG one byte larger, a small text file
FileAtLimit == sizedFile(MimeJpeg, MAX_FILE_SIZE_BYTES)
FileOversized == sizedFile(MimeJpeg, MAX_FILE_SIZE_BYTES + 1)
FileText == sizedFile(MimeText, 12)

\* the selections made in the Add Photos input: one file at the limit, one
\* oversized file, one of each, 25 files, 51 files
Selections ==
  {<<FileAtLimit>>, <<FileOversized>>, <<FileAtLimit, FileOversized>>,
   [k \in 1..25 |-> FileAtLimit],
   [k \in 1..51 |-> FileAtLimit]}

\* the selections dropped on the upload zone: those, and one with a text file
ZoneSelections == Selections \cup {<<FileAtLimit, FileText, FileOversized>>}

\* the count test looking at the selection only
limitExceededAlone(currentCount, count) == count > MAX_BATCH_SIZE

\* currentCount + files.length > MAX_BATCH_SIZE
limitExceeded(currentCount, count) == currentCount + count > MAX_BATCH_SIZE

\* file.size <= MAX_FILE_SIZE_BYTES
sizeAllowed(file) == file.size <= MAX_FILE_SIZE_BYTES

\* file.type.startsWith('image/')
isImageType(type) == slice(type, 0, 6) = <<105, 109, 97, 103, 101, 47>>

\* validateFiles of App:
\* alert(`Limit exceeded. You can only upload up to ${MAX_BATCH_SIZE} photos in a batch.`)
limitAlert ==
  "Limit exceeded. You can only upload up to " \o ToString(MAX_BATCH_SIZE)
    \o " photos in a batch."

\* validateAndPassFiles of the upload zone:
\* alert(`Limit exceeded. You can only upload up to ${MAX_BATCH_SIZE} photos in total. You currently have ${currentFileCount}.`)
zoneLimitAlert(currentFileCount) ==
  "Limit exceeded. You can only upload up to " \o ToString(MAX_BATCH_SIZE)
    \o " photos in total. You currently have " \o ToString(currentFileCount)
    \o "."

\* alert(`${oversizedCount} file(s) were skipped because they exceed the 40MB limit.`)
skippedAlert(oversizedCount) ==
  ToString(oversizedCount)
    \o " file(s) were skipped because they exceed the 40MB limit."

\* the alerts of an intake of `files` of which `sized` have an allowed size;
\* limit is the alert of the entry point for a selection over the limit
intakeAlerts(currentCount, files, sized, limit) ==
  IF limitExceeded(currentCount, Len(files)) THEN <<limit>>
  ELSE LET valid == SelectSeq(sized, sizeAllowed)
       IN  IF Len(sized) - Len(valid) > 0
           THEN <<skippedAlert(Len(sized) - Len(valid))>> ELSE << >>

\* validateFiles(files, currentCount): the files that go on
validateFiles(files, currentCount) ==
  IF limitExceeded(currentCount, Len(files)) THEN << >>
  ELSE SelectSeq(files, sizeAllowed)

\* validateAndPassFiles(files) of the upload zone: the files handed to
\* onFilesSelected, none when the limit is exceeded
validSize(files, currentFileCount) ==
  IF limitExceeded(currentFileCount, Len(files)) THEN << >>
  ELSE SelectSeq(SelectSeq(files, LAMBDA f : isImageType(f.type)), sizeAllowed)

\* the intake handed `valid` on, or handed nothing on
intakePass(valid) ==
  IF Len(valid) > 0 THEN filesSelected(valid)
  ELSE UNCHANGED <<photos, tasks, nextId>>

\* handleAddPhotosInput: the Add Photos input, shown next to the photos
handleAddPhotosInput(files) ==
  /\ Len(photos) > 0
  /\ nextId + Len(validateFiles(files, Len(photos))) - 1 <= MaxIntakeIds
  /\ Len(alerts) < MaxAlerts
  /\ alerts' = alerts \o intakeAlerts(Len(photos), files, files, limitAlert)
  /\ intakePass(validateFiles(files, Len(photos)))
  /\ UNCHANGED <<fnVars, xmpVars, upscales, keepOriginalFilenames, isZipping, downloads, exportVars>>

\* handleDrop / handleFileInput of the upload zone, shown while there are no
\* photos
validateAndPassFiles(files) ==
  /\ Len(photos) = 0
  /\ nextId + Len(validSize(files, Len(photos))) - 1 <= MaxIntakeIds
  /\ Len(alerts) < MaxAlerts
  /\ alerts' = alerts \o intakeAlerts(Len(photos), files,
                                      SelectSeq(files, LAMBDA f : isImageType(f.type)),
                                      zoneLimitAlert(Len(photos)))
  /\ intakePass(validSize(files, Len(photos)))
  /\ UNCHANGED <<fnVars, xmpVars, upscales, keepOriginalFilenames, isZipping, downloads, exportVars>>

(* ------------------------------ SpecIntake ----------------------------- *)

\* the collection is full
full == Len(photos) = MAX_BATCH_SIZE

\* uploads through the upload zone and the Add Photos input; once the
\* collection is full the newest photo may fail at its file read, be
\* retried and be removed
NextIntake ==
  \/ \E files \in ZoneSelections : validateAndPassFiles(files)
  \/ \E files \in Selections : handleAddPhotosInput(files)
  \/ \E t \in tasks : full /\ t.id = photos[1].id /\ processFileReadError(t)
  \/ full /\ handleRetry(1)
  \/ full /\ handleRemovePhoto(1)
  \/ \E checked \in BOOLEAN : setKeepOriginalFilenames(checked)

SpecIntake == Init /\ [][NextIntake]_vars

(* ----------------------------- SpecFileName ---------------------------- *)

\* file names: "photo.JPG", "IMG_003.png", "archive.tar.gz", "README",
\* "photo." and ".hidden"
NameSamples ==
  {<<112, 104, 111, 116, 111, 46, 74, 80, 71>>,
   <<73, 77, 71, 95, 48, 48, 51, 46, 112, 110, 103>>,
   <<97, 114, 99, 104, 105, 118, 101, 46, 116, 97, 114, 46, 103, 122>>,
   <<82, 69, 65, 68, 77, 69>>,
   <<112, 104, 111, 116, 111, 46>>,
   <<46, 104, 105, 100, 100, 101, 110>>}

\* "Ab1 " fifteen times: a title of 60 code units
LongTitle == [i \in 1..60 |-> <<65, 98, 49, 32>>[((i - 1) % 4) + 1]]

\* titles: "A Red Car!!", "", the 60-unit title, "Café 9"
TitleSamples ==
  {<<65, 32, 82, 101, 100, 32, 67, 97, 114, 33, 33>>, << >>, LongTitle,
   <<67, 97, 102, 233, 32, 57>>}

\* categories: "", "Nature", "Category"
CategorySamples ==
  {<< >>, <<78, 97, 116, 117, 114, 101>>, <<67, 97, 116, 101, 103, 111, 114, 121>>}

\* metadata with one of the titles or none, one of the categories or none
NameMetas ==
  {[description |-> << >>, keywords |-> << >>]}
    \cup {[title |-> t, description |-> << >>, keywords |-> << >>] :
            t \in TitleSamples}
    \cup {[description |-> << >>, keywords |-> << >>, category |-> c] :
            c \in CategorySamples}
    \cup {[title |-> t, description |-> << >>, keywords |-> << >>, category |-> c] :
            t \in TitleSamples, c \in CategorySamples}

\* the photos a name is built for: generated ones, and pending ones (no data)
NamePhotos ==
  {completedPhoto(1, n, MimeJpeg, << >>, m) : n \in NameSamples, m \in NameMetas}
    \cup {[id |-> 1, file |-> [name |-> n, type |-> MimeJpeg, bytes |-> << >>],
           status |-> "PENDING"] : n \in NameSamples}

\* the call constructFileName(photo, keepOriginal) is entered
InitFileName ==
  /\ IdleXmp /\ IdleApp /\ IdleExport
  /\ callee = "constructFileName"
  /\ args \in [photo : NamePhotos, keepOriginal : BOOLEAN]
  /\ returned = Pending

\* the call ends: it returns the name, or raises the TypeError
constructFileNameEnd ==
  /\ callee = "constructFileName"
  /\ returned = Pending
  /\ returned' = IF constructFileNameThrows(args.photo, args.keepOriginal)
                 THEN [throws |-> "TypeError"]
                 ELSE [value |-> constructFileName(args.photo, args.keepOriginal)]
  /\ UNCHANGED <<callee, args, xmpVars, upscales, appVars, procVars, exportVars>>

NextFileName == constructFileNameEnd

SpecFileName == InitFileName /\ [][NextFileName]_vars

(* ------------------------------ exportToCSV ---------------------------- *)

\* str.replace(/"/g, '""') with the replacement left out
keepQuotes(s) == s

\* str.replace(/"/g, '""')
doubleQuotes(s) ==
  concat([i \in 1..Len(s) |-> IF s[i] = 34 THEN <<34, 34>> ELSE <<s[i]>>])

\* `"${finalFilename}"`
csvFilename(photo, keepOriginal) ==
  <<34>> \o constructFileName(photo, keepOriginal) \o <<34>>

\* `"${p.data?.title?.replace(/"/g, '""') || ''}"`, and the same for the
\* description and the category
csvText(meta, field) ==
  <<34>> \o (IF field \in DOMAIN meta THEN doubleQuotes(meta[field]) ELSE << >>)
         \o <<34>>

\* `"${p.data?.keywords?.join('; ').replace(/"/g, '""') || ''}"`
csvKeywords(meta) ==
  <<34>> \o (IF "keywords" \in DOMAIN meta
             THEN doubleQuotes(join(meta.keywords, <<59, 32>>))
             ELSE << >>)
         \o <<34>>

\* row.join(',')
csvRow(photo, keepOriginal) ==
  join(<<csvFilename(photo, keepOriginal), csvText(photo.data, "title"),
         csvText(photo.data, "description"), csvText(photo.data, "category"),
         csvKeywords(photo.data)>>, <<44>>)

\* headers.join(','): "Filename,Title,Description,Category,Keywords"
csvHeaders ==
  <<70, 105, 108, 101, 110, 97, 109, 101, 44, 84, 105, 116, 108, 101, 44, 68,
    101, 115, 99, 114, 105, 112, 116, 105, 111, 110, 44, 67, 97, 116, 101, 103,
    111, 114, 121, 44, 75, 101, 121, 119, 111, 114, 100, 115>>

\* the header line and one line per photo, joined with '\n'
csvContent(ps, keepOriginal) ==
  join(<<csvHeaders>> \o [i \in 1..Len(ps) |-> csvRow(ps[i], keepOriginal)],
       <<10>>)

\* constructFileName raises for one of the photos; nothing catches it
exportToCSVThrows(ps, keepOriginal) ==
  \E i \in 1..Len(ps) : constructFileNameThrows(ps[i], keepOriginal)

\* exportToCSV: the early return without completed photos; otherwise the
\* file is offered for download, unless building a row raised
exportToCSV ==
  /\ Len(downloads) < MaxCsvExports
  /\ LET completed == completedPhotos(photos)
     IN  IF completed = << >> \/ exportToCSVThrows(completed, keepOriginalFilenames)
         THEN UNCHANGED downloads
         ELSE downloads' =
                Append(downloads,
                       [kind |-> "csv",
                        content |-> csvContent(completed, keepOriginalFilenames)])
  /\ UNCHANGED <<fnVars, xmpVars, upscales, procVars, photos, keepOriginalFilenames, isZipping,
                 alerts, exportVars>>

(* -------------------------------- SpecCsv ------------------------------ *)

\* title 'He said "hi"', description "a,b\nc" (comma, line break),
\* category "Nature", keywords "x;y" and 'q"r'
MetaQuoted ==
  [title |-> <<72, 101, 32, 115, 97, 105, 100, 32, 34, 104, 105, 34>>,
   description |-> <<97, 44, 98, 10, 99>>,
   keywords |-> <<<<120, 59, 121>>, <<113, 34, 114>>>>,
   category |-> <<78, 97, 116, 117, 114, 101>>]

\* title "Sky", description "A<b", one keyword, category '6" tall'
MetaInches ==
  [title |-> <<83, 107, 121>>, description |-> <<65, 60, 98>>,
   keywords |-> <<<<115, 107, 121>>>>,
   category |-> <<54, 34, 32, 116, 97, 108, 108>>]

\* the photos a CSV is exported from: a.jpg and b.JPG (no title) and the
\* failed e.jpeg of the pool, b.png with quoted text, a file named 'a"b.jpg',
\* and c.jpg with a quote in its category
CsvPool ==
  {poolPhoto(1), poolPhoto(4), poolPhoto(5),
   completedPhoto(6, <<98, 46, 112, 110, 103>>, MimePng, PngBytes, MetaQuoted),
   completedPhoto(7, <<97, 34, 98, 46, 106, 112, 103>>, MimeJpeg, ScanJpeg, MetaSky),
   completedPhoto(8, <<99, 46, 106, 112, 103>>, MimeJpeg, ScanJpeg, MetaInches)}

\* collections of one or two different photos of the pool
CsvCollections ==
  {<<p>> : p \in CsvPool}
    \cup {<<pq[1], pq[2]>> : pq \in {x \in CsvPool \X CsvPool : x[1] # x[2]}}

InitCsv ==
  /\ IdleXmp /\ IdleExport /\ IdleFn
  /\ photos \in CsvCollections
  /\ keepOriginalFilenames \in BOOLEAN
  /\ isZipping = FALSE /\ alerts = << >> /\ downloads = << >>
  /\ tasks = {} /\ nextId = 1 /\ upscales = << >>

NextCsv ==
  \/ exportToCSV
  \/ \E checked \in BOOLEAN : setKeepOriginalFilenames(checked)
  \/ \E i \in 1..Len(photos) : handleUpscalePhoto(i)
  \/ handleUpscaleAll
  \/ \E k \in 1..Len(upscales) : upscaleResolved(k)
  \/ \E k \in 1..Len(upscales) : upscaleRejected(k)

SpecCsv == InitCsv /\ [][NextCsv]_vars

(* ------------------------------ SpecPacket ----------------------------- *)

\* user text: "", "Sky", "A<b", "a&b", '"q"', "it's", "</rdf:li><x>", "&lt;"
TextSamples ==
  {<< >>, <<83, 107, 121>>, <<65, 60, 98>>, <<97, 38, 98>>, <<34, 113, 34>>,
   <<105, 116, 39, 115>>, <<60, 47, 114, 100, 102, 58, 108, 105, 62, 60, 120, 62>>,
   <<38, 108, 116, 59>>}

\* descriptions: "", "A<b", "it's"
DescriptionSamples == {<< >>, <<65, 60, 98>>, <<105, 116, 39, 115>>}

\* keyword lists: none, ["a&b"], ["Sky", "</rdf:li><x>"]
KeywordListSamples ==
  {<< >>, <<<<97, 38, 98>>>>,
   <<<<83, 107, 121>>, <<60, 47, 114, 100, 102, 58, 108, 105, 62, 60, 120, 62>>>>}

\* categories as createXmpPacket gets them: "" (also for none), "Nature",
\* "R&D", '"q"'
PacketCategories ==
  {<< >>, <<78, 97, 116, 117, 114, 101>>, <<82, 38, 68>>, <<34, 113, 34>>}

\* the call createXmpPacket(title, description, keywords, category) is entered
InitPacket ==
  /\ IdleXmp /\ IdleApp /\ IdleExport
  /\ callee = "createXmpPacket"
  /\ args \in [title : TextSamples, description : DescriptionSamples,
               keywords : KeywordListSamples, category : PacketCategories]
  /\ returned = Pending

\* the call returns the packet
createXmpPacketEnd ==
  /\ callee = "createXmpPacket"
  /\ returned = Pending
  /\ returned' = [value |-> createXmpPacket(args.title, args.description,
                                            args.keywords, args.category)]
  /\ UNCHANGED <<callee, args, xmpVars, upscales, appVars, procVars, exportVars>>

NextPacket == createXmpPacketEnd

SpecPacket == InitPacket /\ [][NextPacket]_vars

(* ------------------------------- SpecUCS2 ------------------------------ *)

\* code units the strings are made of: ' ', 'A', '~' (printable ASCII),
\* 'é' and the em dash U+2014
UCS2Alphabet == {32, 65, 126, 233, 8212}

\* the strings of at most MaxStrLen code units
UCS2Strings == UNION {[1..n -> UCS2Alphabet] : n \in 0..MaxStrLen}

\* the call toUCS2(str) is entered
InitUCS2 ==
  /\ IdleXmp /\ IdleApp /\ IdleExport
  /\ callee = "toUCS2"
  /\ args \in [str : UCS2Strings]
  /\ returned = Pending

\* the call returns the byte array
toUCS2End ==
  /\ callee = "toUCS2"
  /\ returned = Pending
  /\ returned' = [value |-> toUCS2(args.str)]
  /\ UNCHANGED <<callee, args, xmpVars, upscales, appVars, procVars, exportVars>>

NextUCS2 == toUCS2End

SpecUCS2 == InitUCS2 /\ [][NextUCS2]_vars

(* ------------------------------ SpecEscape ----------------------------- *)

\* code units the escaped strings are made of: the five reserved characters,
\* 'a' and ';'
EscapeAlphabet == {60, 62, 38, 39, 34, 97, 59}

\* the strings of at most MaxEscapeLen code units, and the entity-like texts
\* "&amp;", "&lt;b&gt;" and "&amp;lt;"
EscapeStrings ==
  UNION {[1..n -> EscapeAlphabet] : n \in 0..MaxEscapeLen}
    \cup {<<38, 97, 109, 112, 59>>, <<38, 108, 116, 59, 98, 38, 103, 116, 59>>,
          <<38, 97, 109, 112, 59, 108, 116, 59>>}

\* the call escapeXml(unsafe) is entered
InitEscape ==
  /\ IdleXmp /\ IdleApp /\ IdleExport
  /\ callee = "escapeXml"
  /\ args \in [unsafe : EscapeStrings]
  /\ returned = Pending

\* the call returns the escaped string
escapeXmlEnd ==
  /\ callee = "escapeXml"
  /\ returned = Pending
  /\ returned' = [value |-> escapeXml(args.unsafe)]
  /\ UNCHANGED <<callee, args, xmpVars, upscales, appVars, procVars, exportVars>>

NextEscape == escapeXmlEnd

SpecEscape == InitEscape /\ [][NextEscape]_vars

(* --------------------------- SpecUserComment --------------------------- *)

\* the call toUserComment(str) is entered
InitUserComment ==
  /\ IdleXmp /\ IdleApp /\ IdleExport
  /\ callee = "toUserComment"
  /\ args \in [str : UCS2Strings]
  /\ returned = Pending

\* the call returns the byte array
toUserCommentEnd ==
  /\ callee = "toUserComment"
  /\ returned = Pending
  /\ returned' = [value |-> toUserComment(args.str)]
  /\ UNCHANGED <<callee, args, xmpVars, upscales, appVars, procVars, exportVars>>

NextUserComment == toUserCommentEnd

SpecUserComment == InitUserComment /\ [][NextUserComment]_vars

(* ======================= properties of insertXmp ======================= *)

\* an APP0 or APP1 marker starts at JavaScript index off of buf
IsAppMarkerAt(buf, off) ==
  /\ off + 2 <= Len(buf)
  /\ buf[off + 1] = 255
  /\ buf[off + 2] \in {224, 225}

\* the big-endian length field that follows the marker at off; a byte the
\* buffer does not hold counts as 0
DeclaredLength(buf, off) ==
  (IF off + 3 <= Len(buf) THEN buf[off + 3] ELSE 0) * 256
    + (IF off + 4 <= Len(buf) THEN buf[off + 4] ELSE 0)

\* the sum of (2 + declared length) over the maximal run of consecutive
\* APP0/APP1 segments that starts at off
RECURSIVE AppRunLength(_, _)
AppRunLength(buf, off) ==
  IF IsAppMarkerAt(buf, off)
  THEN 2 + DeclaredLength(buf, off)
         + AppRunLength(buf, off + 2 + DeclaredLength(buf, off))
  ELSE 0

\* C6: when insertXmp returns, its insertion offset is 2 plus the sum of
\* (2 + declared big-endian length) over the maximal run of APP0/APP1 segments
\* after start-of-image; and when no APP0/APP1 marker follows start-of-image
\* the new segment occupies the output from offset 2 on, right after the
\* first two input bytes.
C6_InsertionOffset ==
  xmpPc = "done" =>
    /\ offset = 2 + AppRunLength(binaryStr, 2)
    /\ (Len(binaryStr) >= 2 /\ ~IsAppMarkerAt(binaryStr, 2)) =>
         /\ offset = 2
         /\ SubSeq(finalBinary, 1, 2) = SubSeq(binaryStr, 1, 2)
         /\ SubSeq(finalBinary, 3, 2 + Len(segment(xmpXml))) = segment(xmpXml)

\* C6 witness: a run of two segments (APP0 of 6 bytes, APP1 of 5) was skipped
C6_Witness ==
  /\ xmpPc = "done"
  /\ binaryStr = TwoSegJpeg
  /\ offset = 13
  /\ SubSeq(finalBinary, 14, 15) = <<255, 225>>

\* C7: for a buffer whose start-of-image marker is followed by an APP0
\* segment of 20 bytes (marker, length field 18, 16 more bytes) and then by
\* something that is not APP0/APP1, the new segment starts at offset 22.
C7_Jfif20Offset ==
  ( /\ xmpPc = "done"
    /\ Len(binaryStr) >= 22
    /\ SubSeq(binaryStr, 1, 6) = <<255, 216, 255, 224, 0, 18>>
    /\ ~IsAppMarkerAt(binaryStr, 22) ) =>
      /\ offset = 22
      /\ SubSeq(finalBinary, 1, 22) = SubSeq(binaryStr, 1, 22)
      /\ SubSeq(finalBinary, 23, 22 + Len(segment(xmpXml))) = segment(xmpXml)

\* C7 witness: the JFIF sample was processed and the segment sits at 22
C7_Witness ==
  /\ xmpPc = "done"
  /\ binaryStr = Jfif20Jpeg
  /\ offset = 22
  /\ xmpXml # << >>
  /\ SubSeq(finalBinary, 23, 24) = <<255, 225>>

\* C8: insertXmp only adds: with k the insertion point (the offset, or the
\* end of a shorter buffer), every input byte before k keeps its position,
\* every input byte from k on moves up by the segment's length, the segment
\* lies between them, the output is longer by exactly 4 + 29 + length(xmpXml),
\* and cutting the segment out of the output gives the input back.
C8_PurelyAdditive ==
  xmpPc = "done" =>
    LET k   == IF offset > Len(binaryStr) THEN Len(binaryStr) ELSE offset
        seg == segment(xmpXml)
        n   == Len(seg)
    IN  /\ n = 4 + 29 + Len(xmpXml)
        /\ Len(finalBinary) = Len(binaryStr) + 4 + 29 + Len(xmpXml)
        /\ \A i \in 1..k : finalBinary[i] = binaryStr[i]
        /\ \A i \in 1..n : finalBinary[k + i] = seg[i]
        /\ \A i \in (k + 1)..Len(binaryStr) : finalBinary[i + n] = binaryStr[i]
        /\ SubSeq(finalBinary, 1, k)
             \o SubSeq(finalBinary, k + n + 1, Len(finalBinary)) = binaryStr

\* C8 witness: a buffer that already holds an APP1 segment got the new
\* segment after it, the old APP1 bytes still in place
C8_Witness ==
  /\ xmpPc = "done"
  /\ binaryStr = TwoSegJpeg
  /\ xmpXml = <<60, 120, 47, 62>>
  /\ SubSeq(finalBinary, 9, 13) = <<255, 225, 0, 3, 9>>
  /\ Len(finalBinary) = Len(TwoSegJpeg) + 37

\* the returned string holds, at the insertion offset, the marker FF E1, a
\* two-byte big-endian number equal to 2 + the payload length, and the
\* payload: the 29 code units of the signature and the XMP text
segmentAsSpecified ==
  /\ Len(finalBinary) >= offset + 4 + 29 + Len(xmpXml)
  /\ finalBinary[offset + 1] = 255 /\ finalBinary[offset + 2] = 225
  /\ finalBinary[offset + 3] \in 0..255 /\ finalBinary[offset + 4] \in 0..255
  /\ 256 * finalBinary[offset + 3] + finalBinary[offset + 4] = 2 + 29 + Len(xmpXml)
  /\ \A i \in 1..29 : finalBinary[offset + 4 + i] = xmpHeader[i]
  /\ \A i \in 1..Len(xmpXml) : finalBinary[offset + 4 + 29 + i] = xmpXml[i]

\* C19: for every XMP text, however long, the segment insertXmp wrote starts
\* with FF E1 and a two-byte big-endian length field whose value is 2 + the
\* payload length, the payload being the 29-unit signature and the text
C19_LengthField ==
  (xmpPc = "done" /\ offset <= Len(binaryStr)) => segmentAsSpecified

\* what the code does keep: the same for every text of at most 65504 code
\* units, where 2 + the payload length is below 65536
LengthFieldWhenItFits ==
  (xmpPc = "done" /\ offset <= Len(binaryStr) /\ Len(xmpXml) <= 65504) =>
     segmentAsSpecified

(* ======================== properties of the export ===================== *)

\* the call cannot embed: the codec is absent, the codec raises, or a step
\* of the try block raises on these arguments
embedFails(c) ==
  ~piexifLoaded \/ c.fault # "none" \/ tryThrows(c.input, c.meta, "none")

\* C1: embedMetadata never raises and is best-effort: every call resolves,
\* and when the codec is absent or any step throws, the value it resolves
\* with is the original payload (the input itself when the codec is absent,
\* the input without its data-URL prefix when a step threw).
C1_EmbedNeverRaises ==
  \A k \in 1..Len(embedCalls) :
    LET c == embedCalls[k]
    IN  /\ c.result.settled = "resolved"
        /\ embedFails(c) =>
             c.result.value = IF piexifLoaded THEN cleanBase64(c.input)
                              ELSE c.input

\* C1 witness: with the codec loaded and not raising, a call on the base64
\* of a PNG has resolved with that same base64.
C1_Witness ==
  \E k \in 1..Len(embedCalls) :
    /\ piexifLoaded
    /\ embedCalls[k].fault = "none"
    /\ embedCalls[k].input = btoa(PngBytes)
    /\ embedCalls[k].result.settled = "resolved"
    /\ embedCalls[k].result.value = btoa(PngBytes)

\* the calls of the archive builder, running or ended
zipCalls == {c \in 1..Len(calls) : isZipCall(calls[c])}

\* the calls of embedMetadata the archive builder made in call c that could
\* not embed
zipFailedCalls(c) ==
  {k \in 1..Len(calls[c].embeds) : embedFails(calls[c].embeds[k])}

\* C2: when some item's embedding fails, the archive builder is not aborted
\* by it and the export does not fail (only a file read that fails rejects
\* it); the finished archive has one entry for every item that has
\* metadata, and the entry of an item whose embedding failed holds that
\* item's original bytes.
C2_FailedEmbeddingKeepsEveryEntry ==
  \A c \in zipCalls :
    (jszipLoaded /\ zipFailedCalls(c) # {}) =>
      /\ calls[c].zipOutcome = "rejected" => calls[c].zipError = "read"
      /\ calls[c].zipOutcome = "resolved" =>
           /\ Cardinality(archive(calls[c].zipEntries)) =
                Cardinality({i \in 1..Len(calls[c].zipPhotos) :
                               hasData(calls[c].zipPhotos[i])})
           /\ \A k \in zipFailedCalls(c) :
                \E e \in archive(calls[c].zipEntries) :
                  /\ e.item = calls[c].embeds[k].item
                  /\ e.data = calls[c].embeds[k].input

\* embedMetadata was called in call c for the photo with this id
embedCalled(c, id) ==
  \E k \in 1..Len(calls[c].embeds) : calls[c].embeds[k].item = id

\* the photo call c was given that has this id
photoById(c, id) ==
  IF isZipCall(calls[c])
  THEN calls[c].zipPhotos[CHOOSE i \in 1..Len(calls[c].zipPhotos) :
                            calls[c].zipPhotos[i].id = id]
  ELSE calls[c].dlPhoto

\* the download offered by the single-image call c
offeredBy(c) ==
  {i \in 1..Len(downloads) :
     /\ downloads[i].kind = "image"
     /\ downloads[i].item = calls[c].dlPhoto.id
     /\ downloads[i].name = constructFileName(calls[c].dlPhoto, calls[c].keep)}

\* C3: in both export paths embedMetadata is called for an item exactly
\* when its declared type is image/jpeg or image/jpg, and the archive entry
\* or download of an item of any other type holds the bytes read from the
\* file.
C3_EmbedOnlyDeclaredJpeg ==
  \A c \in 1..Len(calls) :
    LET z == calls[c]
    IN  /\ \A k \in 1..Len(z.embeds) :
             z.embeds[k].caller # "embedMetadata" =>
               photoById(c, z.embeds[k].item).file.type \in {MimeJpeg, MimeJpg}
        /\ \A i \in 1..Len(z.zipPhotos) :
             (z.zipStage[i] \in {"embedding", "written"}
                /\ z.zipPhotos[i].file.type \in {MimeJpeg, MimeJpg})
               => embedCalled(c, z.zipPhotos[i].id)
        /\ \A i \in 1..Len(z.zipEntries) :
             photoById(c, z.zipEntries[i].item).file.type \notin {MimeJpeg, MimeJpg}
               => z.zipEntries[i].data =
                    btoa(photoById(c, z.zipEntries[i].item).file.bytes)
        /\ (z.dlPc \in {"embedding", "done"}
              /\ z.dlPhoto.file.type \in {MimeJpeg, MimeJpg})
             => embedCalled(c, z.dlPhoto.id)
        /\ (z.dlPc = "done" /\ z.dlPhoto.file.type \notin {MimeJpeg, MimeJpg})
             => /\ offeredBy(c) # {}
                /\ \A i \in offeredBy(c) :
                     downloads[i].content =
                       dataUrl(z.dlPhoto.file.type, btoa(z.dlPhoto.file.bytes))

\* C3 witness: Upscale All has replaced the files of c.png and b.JPG; the
\* archive builder has then written the PNG as read, the bytes of the
\* canvas, and has called embedMetadata for the photo declared image/jpg.
C3_Witness ==
  \E c \in zipCalls :
    /\ \E i \in 1..Len(calls[c].zipEntries) :
         /\ calls[c].zipEntries[i].item = 3
         /\ calls[c].zipEntries[i].data = btoa(CanvasPng)
    /\ \E k \in 1..Len(calls[c].embeds) :
         /\ calls[c].embeds[k].item = 4
         /\ calls[c].embeds[k].input = btoa(CanvasPng)

\* C4: when window.JSZip is absent, createZipWithMetadata fails before any
\* item is read or embedded, downloadAllImages shows an alert, no archive
\* is offered, and the zipping flag is false once every export has ended.
C4_NoArchiveLibrary ==
  ~jszipLoaded =>
    /\ \A c \in zipCalls :
         /\ calls[c].zipOutcome = "rejected"
         /\ calls[c].zipError = "JSZip library not loaded"
         /\ \A i \in 1..Len(calls[c].zipStage) : calls[c].zipStage[i] = "pending"
         /\ calls[c].embeds = << >>
         /\ calls[c].zipEntries = << >>
    /\ \A i \in 1..Len(downloads) : downloads[i].kind # "zip"
    /\ Cardinality({i \in 1..Len(alerts) :
                      alerts[i] = "Failed to create zip file. See console for details."})
         = Cardinality({c \in zipCalls : calls[c].allPc = "done"})
    /\ (\A c \in zipCalls : calls[c].allPc # "awaiting") => ~isZipping

\* C4 witness: downloadAllImages has ended on a collection of two completed
\* photos with the archive library absent, the alert shown.
C4_Witness ==
  /\ ~jszipLoaded
  /\ \E c \in zipCalls :
       /\ calls[c].allPc = "done"
       /\ Len(calls[c].zipPhotos) >= 2
  /\ alerts # << >>
  /\ ~isZipping

\* C5: each call of the archive builder works on one item at a time and in
\* collection order: an item is read, embedded or written only when every
\* item before it is written or passed over, so at most one item is in
\* flight, and the entries are written in collection order.
C5_OneItemAtATime ==
  \A c \in zipCalls :
    LET z == calls[c]
    IN  /\ \A i \in 1..Len(z.zipStage) :
             z.zipStage[i] \in {"reading", "embedding", "written", "failed"} =>
               \A j \in 1..(i - 1) : z.zipStage[j] \in {"written", "skipped"}
        /\ Cardinality({i \in 1..Len(z.zipStage) :
                          z.zipStage[i] \in {"reading", "embedding"}}) <= 1
        /\ \A a, b \in 1..Len(z.zipEntries) :
             a < b =>
               \E i, j \in 1..Len(z.zipPhotos) :
                 /\ i < j
                 /\ z.zipPhotos[i].id = z.zipEntries[a].item
                 /\ z.zipPhotos[j].id = z.zipEntries[b].item

\* C5 witness: the first of three items is written, the second is being
\* read, the third has not begun.
C5_Witness ==
  \E c \in zipCalls :
    /\ Len(calls[c].zipStage) = 3
    /\ calls[c].zipStage[1] = "written"
    /\ calls[c].zipStage[2] = "reading"
    /\ calls[c].zipStage[3] = "pending"
    /\ hasData(calls[c].zipPhotos[3])

(* ===================== properties of the collection ==================== *)

\* the ids of the photos of a collection
idsOf(ps) == {ps[i].id : i \in 1..Len(ps)}

\* the photo of a collection with this id
withId(ps, id) == ps[CHOOSE i \in 1..Len(ps) : ps[i].id = id]

\* the ids of the processPhoto calls that fail in this step
failingIds == {t.id : t \in {u \in tasks' : u.pc = "failed"} \ tasks}

\* one step keeps generation failure to its photo
C9_Step ==
  /\ \A id \in failingIds :
       IF id \in idsOf(photos)
       THEN /\ Len(photos') = Len(photos)
            /\ \A i \in 1..Len(photos) :
                 IF photos[i].id = id
                 THEN /\ photos[i].status = "PROCESSING"
                      /\ photos'[i].status = "ERROR"
                      /\ "error" \in DOMAIN photos'[i]
                      /\ photos'[i].error # ""
                 ELSE photos'[i] = photos[i]
       ELSE photos' = photos
  /\ \A id \in idsOf(photos) \cap idsOf(photos') :
       LET old == withId(photos, id).status
           new == withId(photos', id).status
       IN  /\ (new = "ERROR" /\ old # "ERROR") => id \in failingIds
           /\ (old = "ERROR" /\ new # "ERROR") =>
                /\ new = "PROCESSING"
                /\ \E t \in tasks' : t.id = id /\ t.pc = "fileToBase64"
           /\ old = "PROCESSING" => new \in {"PROCESSING", "COMPLETED", "ERROR"}
           /\ old = "COMPLETED" => new = "COMPLETED"

\* C9: generation failure is isolated per item: when fileToBase64 or
\* generateImageMetadata fails for a photo, that photo alone goes from
\* PROCESSING to ERROR with a non-empty error message and every other photo
\* is left as it was; a photo becomes ERROR in no other way; a retry takes
\* an ERROR photo back to PROCESSING with a new processPhoto call, and from
\* PROCESSING a photo goes to COMPLETED or ERROR only.
C9_FailureIsolated == [][C9_Step]_vars

\* C9 witness: next to a photo whose generation failed stands a photo that
\* failed before (its error message is still there), was retried and
\* completed.
C9_Witness ==
  \E i, j \in 1..Len(photos) :
    /\ i # j
    /\ photos[i].status = "ERROR"
    /\ photos[i].error # ""
    /\ photos[j].status = "COMPLETED"
    /\ "error" \in DOMAIN photos[j]

\* C10: in every reachable state a photo whose status is COMPLETED has
\* metadata with title and description present (a response that is empty,
\* is not JSON or lacks them having made the item ERROR instead).
C10_CompletedHasTitleAndDescription ==
  \A i \in 1..Len(photos) :
    photos[i].status = "COMPLETED" =>
      /\ hasData(photos[i])
      /\ {"title", "description"} \subseteq DOMAIN photos[i].data

(* ======================= properties of the intake ====================== *)

\* the collection and the processPhoto calls respect the two limits
intakeWithinLimits ==
  /\ Len(photos) <= 50
  /\ \A i \in 1..Len(photos) : photos[i].file.size <= 40 * 1024 * 1024
  /\ \A t \in tasks : t.file.size <= 40 * 1024 * 1024

\* a step that shows the limit alert creates no item
limitRejectsWhole ==
  (Len(alerts') > Len(alerts)
     /\ alerts'[Len(alerts')] \in {limitAlert, zoneLimitAlert(Len(photos))}) =>
    /\ photos' = photos
    /\ tasks' = tasks

\* C11: the collection never holds more than 50 photos nor a file larger
\* than 40 MB, whatever is uploaded through the upload zone and the Add
\* Photos input, removed and retried: a selection that would take the count
\* above 50 is rejected as a whole, and no item or processPhoto call is ever
\* created for an oversized file.
C11_IntakeLimits == []intakeWithinLimits /\ [][limitRejectsWhole]_vars

\* C11 witness: the collection holds 50 photos, a selection was rejected for
\* the limit and an oversized file was skipped.
C11_Witness ==
  /\ Len(photos) = 50
  /\ \E k \in 1..Len(alerts) : alerts[k] = limitAlert
  /\ \E k \in 1..Len(alerts) : alerts[k] = skippedAlert(1)

(* ======================= properties of the edits ======================= *)

\* no keyword occurs twice in the list
noDuplicates(keywords) ==
  \A a, b \in 1..Len(keywords) : a # b => keywords[a] # keywords[b]

\* the keywords of `new` that were in `old` stand in the order they had
keepsOrder(old, new) ==
  \A a, b \in 1..Len(new) :
    (a < b /\ includes(old, new[a]) /\ includes(old, new[b])) =>
      \E c, e \in 1..Len(old) : c < e /\ old[c] = new[a] /\ old[e] = new[b]

\* a step keeps the order of the keywords that stay
keywordsKeepOrder ==
  \A id \in idsOf(photos) \cap idsOf(photos') :
    (hasData(withId(photos, id)) /\ hasData(withId(photos', id))
       /\ "keywords" \in DOMAIN withId(photos, id).data
       /\ "keywords" \in DOMAIN withId(photos', id).data) =>
      keepsOrder(withId(photos, id).data.keywords,
                 withId(photos', id).data.keywords)

\* every step of the edits keeps the order of the keywords
EditsKeepKeywordOrder == [][keywordsKeepOrder]_vars

\* C12: a photo's keyword list never contains duplicates: from the generated
\* metadata on, through keyword add and remove, other updates, undo and
\* redo, every keyword occurs at most once.
C12_KeywordsNeverDuplicate ==
  \A i \in 1..Len(photos) :
    (hasData(photos[i]) /\ "keywords" \in DOMAIN photos[i].data) =>
      noDuplicates(photos[i].data.keywords)


(* =================== properties of constructFileName =================== *)

\* constructFileName returned a name for a photo that has metadata
namedWithData ==
  /\ callee = "constructFileName"
  /\ "value" \in DOMAIN returned
  /\ hasData(args.photo)

\* the name holds a '.'
hasDot(name) == \E i \in 1..Len(name) : name[i] = 46

\* the name holds a '.' and does not end with one
hasExtension(name) == hasDot(name) /\ name[Len(name)] # 46

\* the code units after the last '.' of a name that holds one
afterLastDot(name) ==
  LET d == CHOOSE i \in 1..Len(name) :
             name[i] = 46 /\ \A j \in (i + 1)..Len(name) : name[j] # 46
  IN  [i \in 1..(Len(name) - d) |-> name[d + i]]

\* the code units before the last '.' of a name that holds one
beforeLastDot(name) ==
  [i \in 1..(Len(name) - Len(afterLastDot(name)) - 1) |-> name[i]]

\* '(category)' for a non-empty category, nothing otherwise
expectedSuffix(meta) ==
  IF "category" \in DOMAIN meta /\ Len(meta.category) > 0
  THEN <<40>> \o meta.category \o <<41>>
  ELSE << >>

\* the first 50 code units of the title: digits and small letters kept,
\* capital letters made small, anything else '_'
expectedBase(title) ==
  [i \in 1..(IF Len(title) < 50 THEN Len(title) ELSE 50) |->
     IF title[i] \in 48..57 \cup 97..122 THEN title[i]
     ELSE IF title[i] \in 65..90 THEN title[i] + 32
     ELSE 95]

\* s ends with t
endsWith(s, t) ==
  Len(t) <= Len(s) /\ \A i \in 1..Len(t) : s[Len(s) - Len(t) + i] = t[i]

\* C13: with keepOriginal false and a name that has an extension, the result
\* is the title (non-alphanumerics '_', lower-cased, cut to 50), then
\* '(category)' for a non-empty category, then '.' and the extension as it
\* is written; "photo.JPG", "A Red Car!!", "Nature" give
\* "a_red_car__(Nature).JPG"
C13_SanitizedTitleName ==
  (namedWithData /\ ~args.keepOriginal /\ hasExtension(args.photo.file.name)) =>
     /\ returned.value =
          expectedBase(args.photo.data.title) \o expectedSuffix(args.photo.data)
            \o <<46>> \o afterLastDot(args.photo.file.name)
     /\ ( /\ args.photo.file.name = <<112, 104, 111, 116, 111, 46, 74, 80, 71>>
          /\ args.photo.data.title = <<65, 32, 82, 101, 100, 32, 67, 97, 114, 33, 33>>
          /\ truthy(args.photo.data, "category")
          /\ args.photo.data.category = <<78, 97, 116, 117, 114, 101>> )
        => returned.value =
             <<97, 95, 114, 101, 100, 95, 99, 97, 114, 95, 95, 40, 78, 97, 116,
               117, 114, 101, 41, 46, 74, 80, 71>>

\* the 60-unit title named for "photo.JPG" with category "Nature": 50 units
\* of title, the 8 of "(Nature)", ".JPG"
C13_Witness ==
  /\ namedWithData /\ ~args.keepOriginal
  /\ args.photo.file.name = <<112, 104, 111, 116, 111, 46, 74, 80, 71>>
  /\ args.photo.data.title = LongTitle
  /\ truthy(args.photo.data, "category")
  /\ args.photo.data.category = <<78, 97, 116, 117, 114, 101>>
  /\ Len(returned.value) = 62
  /\ SubSeq(returned.value, 1, 4) = <<97, 98, 49, 95>>

\* C14: with keepOriginal true and a name that has an extension, the result
\* is the name without its last extension, then '(category)' for a non-empty
\* category, then '.' and the extension, whatever the title is (or if there
\* is none); "IMG_003.png" gives "IMG_003(Category).png" with the category
\* "Category" and "IMG_003.png" without a category
C14_OriginalName ==
  (namedWithData /\ args.keepOriginal /\ hasExtension(args.photo.file.name)) =>
     /\ returned.value =
          beforeLastDot(args.photo.file.name) \o expectedSuffix(args.photo.data)
            \o <<46>> \o afterLastDot(args.photo.file.name)
     /\ args.photo.file.name = <<73, 77, 71, 95, 48, 48, 51, 46, 112, 110, 103>> =>
          returned.value =
            IF truthy(args.photo.data, "category")
               /\ args.photo.data.category = <<67, 97, 116, 101, 103, 111, 114, 121>>
            THEN <<73, 77, 71, 95, 48, 48, 51, 40, 67, 97, 116, 101, 103, 111,
                   114, 121, 41, 46, 112, 110, 103>>
            ELSE IF ~truthy(args.photo.data, "category")
            THEN args.photo.file.name
            ELSE returned.value

\* "archive.tar.gz" named with the category "Category" and no title at all:
\* "archive.tar(Category).gz"
C14_Witness ==
  /\ namedWithData /\ args.keepOriginal
  /\ "title" \notin DOMAIN args.photo.data
  /\ args.photo.file.name =
       <<97, 114, 99, 104, 105, 118, 101, 46, 116, 97, 114, 46, 103, 122>>
  /\ returned.value =
       <<97, 114, 99, 104, 105, 118, 101, 46, 116, 97, 114, 40, 67, 97, 116,
         101, 103, 111, 114, 121, 41, 46, 103, 122>>

\* C15: the result ends with '.' and the code units after the last '.' of
\* the original name, or with ".jpg" when the original name holds no '.'
C15_ExtensionOrJpg ==
  namedWithData =>
    endsWith(returned.value,
             <<46>> \o (IF hasDot(args.photo.file.name)
                        THEN afterLastDot(args.photo.file.name)
                        ELSE <<106, 112, 103>>))

\* what the code does: the default applies to a name that ends with '.', and
\* a name without '.' is taken whole as the extension
ExtensionAsCoded ==
  namedWithData =>
    endsWith(returned.value,
             <<46>> \o (IF ~hasDot(args.photo.file.name)
                        THEN args.photo.file.name
                        ELSE IF hasExtension(args.photo.file.name)
                        THEN afterLastDot(args.photo.file.name)
                        ELSE <<106, 112, 103>>))

(* ===================== properties of the CSV export ==================== *)

\* stands for a text that does not read as CSV
Malformed == [malformed |-> TRUE]

\* reading CSV under the standard quoting: a position is outside the quoted
\* fields when an even number of '"' stands before it ('""' inside a quoted
\* field counts twice); fields end at a ',' or line break outside, rows at
\* a line break outside
quotesBefore(s, i) == Cardinality({j \in 1..(i - 1) : s[j] = 34})

\* the positions that end a field, the end of the text being the last
fieldEnds(s) ==
  {i \in 1..Len(s) : s[i] \in {44, 10} /\ quotesBefore(s, i) % 2 = 0}
    \cup {Len(s) + 1}

\* the positions that end a row
rowEnds(s) ==
  {i \in 1..Len(s) : s[i] = 10 /\ quotesBefore(s, i) % 2 = 0} \cup {Len(s) + 1}

\* the n-th smallest member of a set of numbers
nth(S, n) == CHOOSE p \in S : Cardinality({q \in S : q < p}) = n - 1

\* the members of t at the positions K, in order
pick(t, K) == [n \in 1..Cardinality(K) |-> t[nth(K, n)]]

\* the length of the run of '"' that ends at position j of t
runLength(t, j) ==
  LET others == {k \in 1..j : t[k] # 34} \cup {0}
  IN  j - (CHOOSE m \in others : \A x \in others : x <= m)

\* the text of the field that ends at position e, as written
rawField(s, e) ==
  LET before == {q \in fieldEnds(s) : q < e} \cup {0}
      b      == CHOOSE m \in before : \A x \in before : x <= m
  IN  [k \in 1..(e - b - 1) |-> s[b + k]]

\* a field as written is bare and holds no '"', or stands between two '"'
\* and holds '"' only in pairs
wellFormedField(raw) ==
  \/ \A k \in 1..Len(raw) : raw[k] # 34
  \/ /\ Len(raw) >= 2 /\ raw[1] = 34 /\ raw[Len(raw)] = 34
     /\ LET t == SubSeq(raw, 2, Len(raw) - 1)
        IN  \A j \in 1..Len(t) :
              (t[j] = 34 /\ (j = Len(t) \/ t[j + 1] # 34)) =>
                 runLength(t, j) % 2 = 0

\* the value of a well-formed field: itself when bare, otherwise what is
\* between the quotes with every pair of '"' read as one
fieldValue(raw) ==
  IF \A k \in 1..Len(raw) : raw[k] # 34 THEN raw
  ELSE LET t == SubSeq(raw, 2, Len(raw) - 1)
       IN  pick(t, {j \in 1..Len(t) : t[j] # 34 \/ runLength(t, j) % 2 = 0})

\* the text is not CSV: a quote inside a bare field, text after a closing
\* quote, or a quoted field that never closes
csvMalformed(s) ==
  \/ quotesBefore(s, Len(s) + 1) % 2 = 1
  \/ \E e \in fieldEnds(s) : ~wellFormedField(rawField(s, e))

\* the rows of a CSV text, each the list of its field values
csvParse(s) ==
  IF csvMalformed(s) THEN Malformed
  ELSE [r \in 1..Cardinality(rowEnds(s)) |->
          LET last  == nth(rowEnds(s), r)
              first == IF r = 1 THEN 0 ELSE nth(rowEnds(s), r - 1)
              ends  == {e \in fieldEnds(s) : first < e /\ e <= last}
          IN  [n \in 1..Cardinality(ends) |-> fieldValue(rawField(s, nth(ends, n)))]]

\* the CSV files offered so far
csvDownloads == {i \in 1..Len(downloads) : downloads[i].kind = "csv"}

\* a metadata text field, empty when it is not set
textOf(meta, field) == IF field \in DOMAIN meta THEN meta[field] ELSE << >>

\* the five values of the row of a photo
rowValues(photo) ==
  <<constructFileName(photo, keepOriginalFilenames),
    textOf(photo.data, "title"), textOf(photo.data, "description"),
    textOf(photo.data, "category"),
    join(textOf(photo.data, "keywords"), <<59, 32>>)>>

\* C16: every exported CSV reads back, under the standard quoting, as the
\* header row and one row of exactly five fields per completed photo, the
\* fields being the file name, title, description, category and joined
\* keywords of the photo
C16_RowsParseBack ==
  \A d \in csvDownloads :
    LET parsed    == csvParse(downloads[d].content)
        completed == completedPhotos(photos)
    IN  /\ parsed # Malformed
        /\ Len(parsed) = 1 + Len(completed)
        /\ \A r \in 1..Len(completed) :
             /\ Len(parsed[r + 1]) = 5
             /\ parsed[r + 1] = rowValues(completed[r])

\* what the code does keep: the rows read back whenever no computed file
\* name holds a '"'
QuoteFreeNamesParseBack ==
  (/\ csvDownloads # {}
   /\ \A r \in 1..Len(completedPhotos(photos)) :
        \A k \in 1..Len(rowValues(completedPhotos(photos)[r])[1]) :
          rowValues(completedPhotos(photos)[r])[1][k] # 34)
  => C16_RowsParseBack

\* a text with each of its '"' written twice
RECURSIVE quotesDoubled(_)
quotesDoubled(s) ==
  IF s = << >> THEN << >>
  ELSE IF Head(s) = 34 THEN <<34, 34>> \o quotesDoubled(Tail(s))
  ELSE <<Head(s)>> \o quotesDoubled(Tail(s))

\* t occurs in s
occursIn(t, s) ==
  \E k \in 0..(Len(s) - Len(t)) : \A i \in 1..Len(t) : s[k + i] = t[i]

\* the title 'He said "hi"'
TitleHeSaidHi == <<72, 101, 32, 115, 97, 105, 100, 32, 34, 104, 105, 34>>

\* C17: in an exported CSV the title of every row stands between quotes with
\* each of its double quotes doubled; the title 'He said "hi"' gives the
\* field '"He said ""hi"""'
C17_TitleQuotesDoubled ==
  \A d \in csvDownloads :
    \A r \in 1..Len(completedPhotos(photos)) :
      LET title == textOf(completedPhotos(photos)[r].data, "title")
      IN  /\ occursIn(<<34, 44, 34>> \o quotesDoubled(title) \o <<34, 44, 34>>,
                      downloads[d].content)
          /\ title = TitleHeSaidHi =>
               occursIn(<<44, 34, 72, 101, 32, 115, 97, 105, 100, 32, 34, 34,
                          104, 105, 34, 34, 34, 44>>, downloads[d].content)

\* a CSV was exported from a photo titled 'He said "hi"'
C17_Witness ==
  /\ csvDownloads # {}
  /\ \E r \in 1..Len(completedPhotos(photos)) :
       textOf(completedPhotos(photos)[r].data, "title") = TitleHeSaidHi

(* ==================== properties of createXmpPacket ==================== *)

\* createXmpPacket returned a packet
packetReturned == callee = "createXmpPacket" /\ "value" \in DOMAIN returned

\* how often the code units of C occur in s
count(s, C) == Cardinality({i \in 1..Len(s) : s[i] \in C})

\* the names a '&' of an escaped text is followed by: "lt;", "gt;", "amp;",
\* "apos;", "quot;"
EntityNames ==
  {<<108, 116, 59>>, <<103, 116, 59>>, <<97, 109, 112, 59>>,
   <<97, 112, 111, 115, 59>>, <<113, 117, 111, 116, 59>>}

\* the packet for texts of the same shape that hold nothing to escape: empty
\* title and description, as many empty keywords, the category "x" if there
\* is one
shapePacket ==
  createXmpPacket(<< >>, << >>, [k \in 1..Len(args.keywords) |-> << >>],
                  IF args.category = << >> THEN << >> ELSE <<120>>)

\* the user texts of the call
userTexts == <<args.title, args.description, args.category>> \o args.keywords

\* the length of a text once escaped: 4 for '<' and '>', 5 for '&', 6 for
\* ''' and '"', 1 for anything else
escapedLength(t) ==
  Len(t) + 3 * count(t, {60, 62}) + 4 * count(t, {38}) + 5 * count(t, {39, 34})

RECURSIVE sumEscaped(_)
sumEscaped(texts) ==
  IF texts = << >> THEN 0 ELSE escapedLength(Head(texts)) + sumEscaped(Tail(texts))

\* C18: whatever the title, description, keywords and category hold, the
\* packet has exactly the '<', '>', '"' and ''' of the template and of the
\* keyword and category elements (none comes from user text), every '&' in it
\* starts one of the five entities, and its length is that of the template
\* and elements plus the escaped lengths of the texts
C18_UserTextEscaped ==
  packetReturned =>
    /\ \A c \in {60, 62, 34, 39} :
         count(returned.value, {c}) = count(shapePacket, {c})
    /\ \A i \in 1..Len(returned.value) :
         returned.value[i] = 38 =>
           \E e \in EntityNames :
             /\ i + Len(e) <= Len(returned.value)
             /\ SubSeq(returned.value, i + 1, i + Len(e)) = e
    /\ Len(returned.value) =
         Len(shapePacket) + sumEscaped(userTexts)
           - (IF args.category = << >> THEN 0 ELSE 1)

\* a packet for the title "</rdf:li><x>", the keywords "Sky" and
\* "</rdf:li><x>" and the category "R&D"
C18_Witness ==
  /\ packetReturned
  /\ args.title = <<60, 47, 114, 100, 102, 58, 108, 105, 62, 60, 120, 62>>
  /\ Len(args.keywords) = 2
  /\ args.category = <<82, 38, 68>>
  /\ count(returned.value, {38}) >= 9

(* ========================= properties of toUCS2 ======================== *)

\* every code unit of s is printable ASCII
printableAscii(s) == \A i \in 1..Len(s) : s[i] \in 32..126

\* the bytes without the last two, read as 16-bit units low byte first
decodeUCS2(bytes) ==
  [i \in 1..((Len(bytes) - 2) \div 2) |-> bytes[2 * i - 1] + 256 * bytes[2 * i]]

\* C20: for a printable-ASCII string s, toUCS2(s) has 2 * len(s) + 2 bytes,
\* the last two are 0, the i-th unit stands low byte first (its code, then
\* 0), and reading the bytes before the terminator back gives s
C20_UCS2RoundTrip ==
  (callee = "toUCS2" /\ "value" \in DOMAIN returned /\ printableAscii(args.str)) =>
     LET out == returned.value
         n   == Len(args.str)
     IN  /\ Len(out) = 2 * n + 2
         /\ out[2 * n + 1] = 0 /\ out[2 * n + 2] = 0
         /\ \A i \in 1..n : out[2 * i - 1] = args.str[i] /\ out[2 * i] = 0
         /\ decodeUCS2(out) = args.str

\* toUCS2 returned for the string "A~ "
C20_Witness ==
  /\ callee = "toUCS2" /\ "value" \in DOMAIN returned
  /\ args.str = <<65, 126, 32>>
  /\ returned.value = <<65, 0, 126, 0, 32, 0, 0, 0>>

(* ================ properties of escapeXml and toUserComment ============ *)

\* the named entities of the five reserved characters, without the '&'
EntityOf ==
  [c \in {60, 62, 38, 39, 34} |->
     CASE c = 60 -> <<108, 116, 59>>
       [] c = 62 -> <<103, 116, 59>>
       [] c = 38 -> <<97, 109, 112, 59>>
       [] c = 39 -> <<97, 112, 111, 115, 59>>
       [] c = 34 -> <<113, 117, 111, 116, 59>>]

\* s continues at position i (1-based) with t
continuesWith(s, i, t) ==
  i + Len(t) - 1 <= Len(s) /\ \A k \in 1..Len(t) : s[i + k - 1] = t[k]

\* an XML entity decoder: read from the left, a '&' followed by the name of
\* one of the five entities is that character, anything else stands for itself
RECURSIVE decodeEntities(_)
decodeEntities(s) ==
  IF s = << >> THEN << >>
  ELSE IF Head(s) = 38 /\ \E c \in DOMAIN EntityOf : continuesWith(s, 2, EntityOf[c])
  THEN LET c == CHOOSE x \in DOMAIN EntityOf : continuesWith(s, 2, EntityOf[x])
       IN  <<c>> \o decodeEntities(SubSeq(s, 2 + Len(EntityOf[c]), Len(s)))
  ELSE <<Head(s)>> \o decodeEntities(Tail(s))

\* where the i-th input code unit starts in the output: one place for each
\* unreserved unit before it, the length of the entity for each reserved one
RECURSIVE placeOf(_, _)
placeOf(s, i) ==
  IF i = 1 THEN 1
  ELSE placeOf(s, i - 1)
         + (IF s[i - 1] \in DOMAIN EntityOf THEN 1 + Len(EntityOf[s[i - 1]]) ELSE 1)

\* C21: escapeXml writes '&' and the entity name for each of the five
\* reserved characters and every other code unit as it is, nothing else, and
\* decoding the entities of the result gives the input back, also for inputs
\* that hold entity-like text such as "&amp;"
C21_EscapeRoundTrip ==
  (callee = "escapeXml" /\ "value" \in DOMAIN returned) =>
     LET s   == args.unsafe
         out == returned.value
     IN  /\ Len(out) = placeOf(s, Len(s) + 1) - 1
         /\ \A i \in 1..Len(s) :
              IF s[i] \in DOMAIN EntityOf
              THEN /\ out[placeOf(s, i)] = 38
                   /\ continuesWith(out, placeOf(s, i) + 1, EntityOf[s[i]])
              ELSE out[placeOf(s, i)] = s[i]
         /\ decodeEntities(out) = s

\* escapeXml returned "&amp;amp;" for the input "&amp;"
C21_Witness ==
  /\ callee = "escapeXml" /\ "value" \in DOMAIN returned
  /\ args.unsafe = <<38, 97, 109, 112, 59>>
  /\ returned.value = <<38, 97, 109, 112, 59, 97, 109, 112, 59>>

\* C22: toUserComment returns 65,83,67,73,73,0,0,0 and then one byte per
\* code unit, its low 8 bits: 8 + len bytes, each in 0..255, a code unit above
\* 0xFF cut down and not rejected
C22_UserCommentBytes ==
  (callee = "toUserComment" /\ "value" \in DOMAIN returned) =>
     LET out == returned.value
     IN  /\ Len(out) = 8 + Len(args.str)
         /\ SubSeq(out, 1, 8) = <<65, 83, 67, 73, 73, 0, 0, 0>>
         /\ \A i \in 1..Len(out) : out[i] \in 0..255
         /\ \A i \in 1..Len(args.str) :
              \E q \in 0..255 : args.str[i] = 256 * q + out[8 + i]

\* toUserComment returned for "A" and the em dash U+2014: 65 and 0x14
C22_Witness ==
  /\ callee = "toUserComment" /\ "value" \in DOMAIN returned
  /\ args.str = <<65, 8212>>
  /\ returned.value = <<65, 83, 67, 73, 73, 0, 0, 0, 65, 20>>

(* ==================== properties of embedMetadata ====================== *)

\* the calls of embedMetadata that returned the embedded image
embeddedCalls == {k \in 1..Len(embedCalls) : embedCalls[k].result.path = "embedded"}

\* the keywords, and after them the category if it is set and not empty
keywordsThenCategory(meta) ==
  IF "category" \in DOMAIN meta /\ Len(meta.category) > 0
  THEN meta.keywords \o <<meta.category>>
  ELSE meta.keywords

\* the dc:subject entries for a list of keywords, between the parts of the
\* packet around them
subjectEntries(list) ==
  XmpPart3
    \o concat([i \in 1..Len(list) |-> RdfLiOpen \o escapeXml(list[i]) \o RdfLiClose])
    \o XmpPart4

\* C23: in every image embedMetadata returns, the XPKeywords tag (between
\* XPComment and XPSubject, both the description) is toUCS2 of the keywords
\* joined by ';' with the category, when it is not empty, as the last one;
\* and the dc:subject entries of the XMP packet are that same list in that
\* order
C23_FinalKeywords ==
  \A k \in embeddedCalls :
    LET c    == embedCalls[k]
        bin  == atob(c.result.value)
        list == keywordsThenCategory(c.meta)
    IN  /\ occursIn(toUCS2(c.meta.description) \o toUCS2(join(list, <<59>>))
                      \o toUCS2(c.meta.description), bin)
        /\ occursIn(subjectEntries(list), bin)

\* an image was returned for the keywords "car", "red" and the category
\* "Nature" (MetaRed): it holds toUCS2 of "car;red;Nature"
C23_Witness ==
  \E k \in embeddedCalls :
    /\ embedCalls[k].meta = MetaRed
    /\ occursIn(<<99, 0, 97, 0, 114, 0, 59, 0, 114, 0, 101, 0, 100, 0, 59, 0,
                  78, 0, 97, 0, 116, 0, 117, 0, 114, 0, 101, 0, 0, 0>>,
                atob(embedCalls[k].result.value))

\* an image was returned for metadata whose category is empty (MetaSky)
EmbeddedWithoutCategory ==
  \E k \in embeddedCalls : embedCalls[k].meta = MetaSky

\* "photoshop:Category"
CategoryName ==
  <<112, 104, 111, 116, 111, 115, 104, 111, 112, 58, 67, 97, 116, 101, 103,
    111, 114, 121>>

\* C24: the packet holds a photoshop:Category element exactly when the
\* category is not empty; then it is the escaped category between the opening
\* and the closing tag, right after the dc:subject element, and otherwise the
\* name photoshop:Category does not occur in the packet
C24_CategoryElement ==
  packetReturned =>
    IF args.category # << >>
    THEN occursIn(XmpPart4 \o <<60>> \o CategoryName \o <<62>>
                    \o escapeXml(args.category)
                    \o <<60, 47>> \o CategoryName \o <<62>> \o XmpPart5,
                  returned.value)
    ELSE /\ ~occursIn(CategoryName, returned.value)
         /\ occursIn(XmpPart4 \o XmpPart5, returned.value)

\* a packet for the category "R&D": it holds the element with "R&amp;D"
C24_Witness ==
  /\ packetReturned
  /\ args.category = <<82, 38, 68>>
  /\ occursIn(<<62, 82, 38, 97, 109, 112, 59, 68, 60, 47>> \o CategoryName,
              returned.value)

\* a packet for the empty category
PacketWithoutCategory == packetReturned /\ args.category = << >>

\* the image holds an APP1 segment that starts with "Exif\0\0"
carriesExif(bin) ==
  \E k \in 0..(Len(bin) - 10) :
    /\ bin[k + 1] = 255 /\ bin[k + 2] = 225
    /\ \A i \in 1..6 : bin[k + 4 + i] = ExifMagic[i]

\* the image holds an APP1 segment that starts with the XMP signature
carriesXmp(bin) ==
  \E k \in 0..(Len(bin) - 33) :
    /\ bin[k + 1] = 255 /\ bin[k + 2] = 225
    /\ \A i \in 1..29 : bin[k + 4 + i] = xmpHeader[i]

\* a text of the metadata holds a code unit above 0xFF
holdsWide(meta) ==
  \/ \E f \in {"title", "description", "category"} \cap DOMAIN meta :
       \E i \in 1..Len(meta[f]) : meta[f][i] > 255
  \/ "keywords" \in DOMAIN meta /\
       \E n \in 1..Len(meta.keywords) :
         \E i \in 1..Len(meta.keywords[n]) : meta.keywords[n][i] > 255

\* the value is the payload the call was given, as it is or without its
\* data-URL prefix
isOriginal(c) ==
  \/ c.result.value = c.input
  \/ \E p \in 1..Len(c.input) :
       /\ c.input[p] = 44
       /\ Len(c.result.value) = Len(c.input) - p
       /\ \A i \in 1..Len(c.result.value) : c.result.value[i] = c.input[p + i]

\* C25: every call of embedMetadata returns the payload it was given or an
\* image that carries both the EXIF segment and the XMP segment, never one
\* with the EXIF segment alone; with a code unit above 0xFF in the title,
\* description, keywords or category (btoa refuses the packet after the EXIF
\* insertion has succeeded) it returns the payload it was given
C25_AllOrNothing ==
  \A k \in 1..Len(embedCalls) :
    LET c == embedCalls[k]
    IN  /\ \/ isOriginal(c)
           \/ /\ ~atobThrows(c.result.value)
              /\ carriesExif(atob(c.result.value))
              /\ carriesXmp(atob(c.result.value))
        /\ holdsWide(c.meta) => isOriginal(c)

\* with the codec loaded and not raising, a call for a JPEG and a title
\* that holds U+2014 has returned the payload it was given
C25_Witness ==
  \E k \in 1..Len(embedCalls) :
    /\ piexifLoaded
    /\ embedCalls[k].fault = "none"
    /\ embedCalls[k].meta = MetaDash
    /\ embedCalls[k].input = btoa(ScanJpeg)
    /\ embedCalls[k].result.value = btoa(ScanJpeg)

(* ================== termination of the insertXmp loop ================== *)

\* an iteration that does not break moves the cursor forward
cursorIncreases == (xmpPc = "scan" /\ xmpPc' = "scan") => offset' > offset

\* the returned string is the input with something put in at one place:
\* every input byte is there, in order
keepsEveryInputByte ==
  xmpPc = "done" =>
    /\ Len(finalBinary) >= Len(binaryStr)
    /\ \E cut \in 0..Len(binaryStr) :
         /\ \A i \in 1..cut : finalBinary[i] = binaryStr[i]
         /\ \A i \in (cut + 1)..Len(binaryStr) :
              finalBinary[i + Len(finalBinary) - Len(binaryStr)] = binaryStr[i]

\* C26: on every input buffer (empty, truncated, with APP0/APP1 length
\* fields of 0 or pointing past the end) each iteration of the scan loop that
\* does not break moves the cursor forward, the call returns, and what it
\* returns holds every input byte
C26_ScanTerminates ==
  /\ [][cursorIncreases]_vars
  /\ <>(xmpPc = "done")
  /\ []keepsEveryInputByte

\* insertXmp returned for a buffer whose APP0 length field is 0: one
\* iteration moved the cursor from 2 to 4, onto the length field, and the
\* next one broke
C26_Witness ==
  /\ xmpPc = "done"
  /\ binaryStr = <<255, 216, 255, 224, 0, 0>>
  /\ offset = 4
  /\ Len(finalBinary) > Len(binaryStr)

(* ------------------- properties of the edit history -------------------- *)

\* history is a non-empty list, historyIndex one of its 0-based positions,
\* and data the entry at that position
historyConsistent(p) ==
  /\ "history" \in DOMAIN p
  /\ "historyIndex" \in DOMAIN p
  /\ Len(p.history) >= 1
  /\ p.historyIndex \in 0..(Len(p.history) - 1)
  /\ p.data = p.history[p.historyIndex + 1]

\* C27: every photo that has metadata, after any sequence of generation,
\* edit, undo and redo, has a non-empty history, a historyIndex between 0 and
\* the last position of the history, and data equal to the history entry at
\* historyIndex; handleUndo at index 0 and handleRedo at the last index leave
\* the photo as it is.
C27_HistoryInvariant ==
  \A i \in 1..Len(photos) :
    hasData(photos[i]) =>
      /\ historyConsistent(photos[i])
      /\ photos[i].historyIndex = 0 =>
           undoMap(photos, photos[i].id)[i] = photos[i]
      /\ photos[i].historyIndex = Len(photos[i].history) - 1 =>
           redoMap(photos, photos[i].id)[i] = photos[i]

\* a generated photo edited twice and undone back to the first entry
C27_Witness ==
  \E i \in 1..Len(photos) :
    /\ hasData(photos[i])
    /\ Len(photos[i].history) = 3
    /\ photos[i].historyIndex = 0
    /\ photos[i].data = photos[i].history[1]

\* the photos a card can show after any sequence of undo and redo on p
RECURSIVE undoRedoClosure(_)
undoRedoClosure(S) ==
  LET T == S \cup {undoMap(<<q>>, q.id)[1] : q \in S}
             \cup {redoMap(<<q>>, q.id)[1] : q \in S}
  IN  IF T = S THEN S ELSE undoRedoClosure(T)

\* photo `after` is photo `before` edited at its current entry: the history is
\* the entries up to the current one and the new data, the index is the last,
\* redo is disabled, and undo and redo lead to those entries only
editedAtIndex(before, after) ==
  LET i    == before.historyIndex
      kept == SubSeq(before.history, 1, i + 1)
  IN  /\ after.history = Append(kept, after.data)
      /\ Len(after.history) = i + 2
      /\ after.historyIndex = Len(after.history) - 1
      /\ ~canRedo(after)
      /\ \A q \in undoRedoClosure({after}) :
           /\ q.history = after.history
           /\ q.historyIndex \in 0..(i + 1)
           /\ q.data = after.history[q.historyIndex + 1]

\* a step of handleUpdatePhoto on photo i leaves it edited at its index
updateDiscardsFuture ==
  \A i \in 1..Len(photos), updates \in Updates :
    handleUpdatePhoto(i, updates) => editedAtIndex(photos[i], photos'[i])

\* C28: handleUpdatePhoto on a photo with historyIndex = i makes the history
\* the old entries 0..i followed by the new data and points historyIndex at
\* the last entry, so that redo is impossible and no sequence of undo and
\* redo reaches an entry that was beyond i.
C28_EditDiscardsRedo == [][updateDiscardsFuture]_vars

\* a photo undone from its third entry to its first, on which an edit leaves
\* two entries
C28_Witness ==
  \E i \in 1..Len(photos), updates \in Updates :
    /\ hasData(photos[i])
    /\ Len(photos[i].history) = 3
    /\ photos[i].historyIndex = 0
    /\ canRedo(photos[i])
    /\ ENABLED (/\ handleUpdatePhoto(i, updates)
                /\ Len(photos'[i].history) = 2
                /\ photos'[i].historyIndex = 1)

(* ------------------ properties of removal and processing --------------- *)

\* the call has not come to its end: it waits for the file or for the model
inFlight(t) == t.pc \in {"fileToBase64", "generateImageMetadata"}

\* no photo of the collection has the id
removed(prev, id) == \A j \in 1..Len(prev) : prev[j].id # id

\* a step in which the in-flight call t moves on keeps the photos in their
\* places, changes no photo but the one of t, and changes none when that
\* photo was removed
settlesInPlace ==
  \A t \in tasks :
    (inFlight(t) /\ t \notin tasks') =>
      /\ Len(photos') = Len(photos)
      /\ \A j \in 1..Len(photos) :
           /\ photos'[j].id = photos[j].id
           /\ photos[j].id # t.id => photos'[j] = photos[j]
      /\ removed(photos, t.id) => photos' = photos

\* C29: when the processPhoto call of a photo removed with handleRemovePhoto
\* completes or fails, the collection does not regain the photo and no other
\* photo's status, data or history changes.
C29_RemovedNeverReappears == [][settlesInPlace]_vars

\* the photo of an in-flight call was removed while another photo is shown,
\* and the call's completion leaves the collection as it is
C29_Witness ==
  \E t \in tasks :
    /\ t.pc = "generateImageMetadata"
    /\ removed(photos, t.id)
    /\ photos # << >>
    /\ ENABLED (processGenerated(t) /\ photos' = photos)

\* the photo with this id is shown and its status is one of those given
shownWithStatus(id, statuses) ==
  \E j \in 1..Len(photos) : photos[j].id = id /\ photos[j].status \in statuses

\* the call of every photo can take its next step whatever the other calls
\* and photos are at
callsIndependent ==
  \A t \in tasks : inFlight(t) => ENABLED processStep(t.id)

\* C30: when every file read and every generation call settles, every photo
\* uploaded that is IDLE or PROCESSING is in the end COMPLETED or ERROR
\* unless it is removed, and the call of a photo can always take its next
\* step whatever the calls of the other photos have come to.
C30_EveryPhotoSettles ==
  /\ []callsIndependent
  /\ \A id \in 1..MaxUploads :
       shownWithStatus(id, {"IDLE", "PROCESSING"})
         ~> (removed(photos, id) \/ shownWithStatus(id, {"COMPLETED", "ERROR"}))

\* two photos of one upload, one failed and the other completed, with the
\* call of each at its end
C30_Witness ==
  /\ Len(photos) = 2
  /\ photos[1].status = "ERROR"
  /\ photos[2].status = "COMPLETED"
  /\ \A t \in tasks : ~inFlight(t)
  /\ \A j \in 1..2 : \E t \in tasks : t.id = photos[j].id

====
